---- MODULE Spec2Model ----
\* A model of sql-genius: the DDL parser and the JSON form of a Schema
\* (internal/schema/parser.go, pkg/models), the AI response extractors
\* (internal/ai) and the HTTP server's schema state (cmd/server/main.go).
\*
\* Text is a string read one character at a time, At(s, i), so that the
\* regular expressions and the strings.* calls of the source are computed
\* character by character, as the code computes them. A Go slice is a record
\* [isNil, v] because the code (and encoding/json) tells a nil slice from an
\* empty one.
EXTENDS Integers, Sequences, FiniteSets, TLC

VARIABLES
    pc,        \* which call the run is at: "start" before it, "done" after it
    dbType,    \* ParseDDL's dialect tag argument
    ast,       \* the statements the DDL text was written from
    ddl,       \* ParseDDL's text argument
    ddlOut,    \* what ParseDDL returned: [err, schema]
    columnsOut,     \* what parseColumns returned for the body of a table
    reply,          \* the lines the AI response text was written from
    responseText,   \* the extractors' response text argument
    userQuery,      \* parseValidationResponse's query argument
    queryOut,       \* what parseQueryResponse returned
    validationOut,  \* what parseValidationResponse returned
    jsonIn,         \* the JSON document ParseJSON is run on
    jsonOut,        \* the Schema at hand: what ParseJSON returned, or one loaded
    jsonBack,       \* what ToJSON returned for that Schema
    jsonAgain,      \* what ParseJSON returned for ToJSON's document
    serverSchema,   \* the server's current schema, s.schema: [isNil, schema]
    lastRequest,    \* the request the server handled last
    httpResponse,   \* the response it wrote
    catalog,        \* the tables of the connected database
    extract,        \* the run of ExtractSchema: what it holds, what it returned
    dbConn,         \* s.dbConn: 0 for nil, or the place of the connection in connections
    connections,    \* the connections Connect has opened, in order: [Type, Database, closed]
    sampleQuery,    \* the query handleSampleData gave to ExecuteQuery last
    inflight        \* each client's request being served: the handler and where it is

jsonVars == <<jsonIn, jsonOut, jsonBack, jsonAgain>>
serverVars == <<serverSchema, lastRequest, httpResponse>>
dbVars == <<catalog, extract>>
connVars == <<dbConn, connections, sampleQuery, inflight>>

vars == <<pc, dbType, ast, ddl, ddlOut, columnsOut, reply, responseText, userQuery, queryOut,
          validationOut, jsonVars, serverVars, dbVars, connVars>>

-----------------------------------------------------------------------------
\* Characters and the strings package

\* the i-th character of s
At(s, i) == SubSeq(s, i, i)

LowerLetters == "abcdefghijklmnopqrstuvwxyz"
UpperLetters == "ABCDEFGHIJKLMNOPQRSTUVWXYZ"
Digits == "0123456789"

\* \w of Go's regexp: [0-9A-Za-z_]
WordSet == {At(LowerLetters, i) : i \in 1..26} \cup {At(UpperLetters, i) : i \in 1..26}
           \cup {At(Digits, i) : i \in 1..10} \cup {"_"}

\* \s of Go's regexp, and the white space strings.TrimSpace removes
SpaceSet == {" ", "\t", "\n", "\r"}

\* the backquote character (a string may hold one only before a single quote)
BackQuote == SubSeq("`'", 1, 1)

\* the optional opening and closing quote classes of the patterns
QuoteOpenSet == {BackQuote, "\"", "'", "["}
QuoteCloseSet == {BackQuote, "\"", "'", "]"}

\* the cutset of strings.Trim(col, ...): every quote character
QuoteCutset == {BackQuote, "\"", "'", "[", "]"}

UpperOf(c) ==
    IF \E i \in 1..26 : At(LowerLetters, i) = c
    THEN At(UpperLetters, CHOOSE i \in 1..26 : At(LowerLetters, i) = c)
    ELSE c

LowerOf(c) ==
    IF \E i \in 1..26 : At(UpperLetters, i) = c
    THEN At(LowerLetters, CHOOSE i \in 1..26 : At(UpperLetters, i) = c)
    ELSE c

\* strings.ToUpper and strings.ToLower, a half of the text at a time
RECURSIVE ToUpper(_)
ToUpper(s) ==
    IF Len(s) = 0 THEN ""
    ELSE IF Len(s) = 1 THEN UpperOf(s)
    ELSE ToUpper(SubSeq(s, 1, Len(s) \div 2)) \o ToUpper(SubSeq(s, Len(s) \div 2 + 1, Len(s)))

RECURSIVE ToLower(_)
ToLower(s) ==
    IF Len(s) = 0 THEN ""
    ELSE IF Len(s) = 1 THEN LowerOf(s)
    ELSE ToLower(SubSeq(s, 1, Len(s) \div 2)) \o ToLower(SubSeq(s, Len(s) \div 2 + 1, Len(s)))

EqualFold(s, t) == ToUpper(s) = ToUpper(t)

HasPrefix(s, p) == Len(p) <= Len(s) /\ SubSeq(s, 1, Len(p)) = p
HasSuffix(s, p) == Len(p) <= Len(s) /\ SubSeq(s, Len(s) - Len(p) + 1, Len(s)) = p

TrimPrefix(s, p) == IF HasPrefix(s, p) THEN SubSeq(s, Len(p) + 1, Len(s)) ELSE s
TrimSuffix(s, p) == IF HasSuffix(s, p) THEN SubSeq(s, 1, Len(s) - Len(p)) ELSE s

\* the least member of a set of positions, 0 when it is empty
Least(S) == IF S = {} THEN 0 ELSE CHOOSE x \in S : \A y \in S : x <= y

\* the greatest member of a set of positions, 0 when it is empty
Greatest(S) == IF S = {} THEN 0 ELSE CHOOSE x \in S : \A y \in S : x >= y

\* the index of p's first occurrence in s, 0 when there is none
IndexOf(s, p) ==
    LET Here(i) == SubSeq(s, i, i + Len(p) - 1) = p
    IN  Least({q \in 1..(Len(s) - Len(p) + 1) : Here(q)})

Contains(s, p) == IndexOf(s, p) # 0

\* strings.Trim(s, cutset): leading and trailing characters of the cutset go
TrimSet(s, S) ==
    LET Keep(i) == At(s, i) \notin S
    IN  IF Least({q \in 1..Len(s) : Keep(q)}) = 0 THEN ""
        ELSE SubSeq(s, Least({q \in 1..Len(s) : Keep(q)}), Greatest({q \in 1..Len(s) : Keep(q)}))

TrimSpace(s) == TrimSet(s, SpaceSet)

\* strings.Split(s, sep) for a one-character separator: never empty
RECURSIVE Split(_, _)
Split(s, sep) ==
    LET IsSep(i) == At(s, i) = sep
        i == Least({q \in 1..Len(s) : IsSep(q)})
    IN  IF i = 0 THEN <<s>>
        ELSE <<SubSeq(s, 1, i - 1)>> \o Split(SubSeq(s, i + 1, Len(s)), sep)

\* strings.Join(parts, sep)
RECURSIVE Join(_, _)
Join(parts, sep) ==
    IF Len(parts) = 0 THEN ""
    ELSE IF Len(parts) = 1 THEN parts[1]
    ELSE parts[1] \o sep \o Join(Tail(parts), sep)

\* Go slices: nil and empty are different values
NilSlice == [isNil |-> TRUE, v |-> <<>>]
EmptySlice == [isNil |-> FALSE, v |-> <<>>]
GoAppend(sl, x) == [isNil |-> FALSE, v |-> Append(sl.v, x)]

-----------------------------------------------------------------------------
\* Pieces of the regular expressions. A position is the index of the next
\* character to read; a matcher returns the position after what it matched,
\* or 0 when it does not match.

\* the position after the longest run of characters of S starting at i
Span(s, i, S) ==
    LET Stop(j) == At(s, j) \notin S
        j == Least({q \in i..Len(s) : Stop(q)})
    IN  IF j = 0 THEN Len(s) + 1 ELSE j

\* the position after the longest run of characters not in S starting at i
SpanNot(s, i, S) ==
    LET Stop(j) == At(s, j) \in S
        j == Least({q \in i..Len(s) : Stop(q)})
    IN  IF j = 0 THEN Len(s) + 1 ELSE j

\* a literal under (?i)
Lit(s, i, w) ==
    IF i # 0 /\ i + Len(w) - 1 <= Len(s)
       /\ ToUpper(SubSeq(s, i, i + Len(w) - 1)) = ToUpper(w)
    THEN i + Len(w) ELSE 0

\* \s+
Ws1(s, i) == IF i = 0 THEN 0 ELSE LET j == Span(s, i, SpaceSet) IN IF j > i THEN j ELSE 0
\* \s*
Ws0(s, i) == IF i = 0 THEN 0 ELSE Span(s, i, SpaceSet)
\* one character c
Ch(s, i, c) == IF i # 0 /\ i <= Len(s) /\ At(s, i) = c THEN i + 1 ELSE 0
\* [S]? : greedy, and no pattern of the source can succeed by giving it back
Opt(s, i, S) == IF i = 0 THEN 0 ELSE IF i <= Len(s) /\ At(s, i) \in S THEN i + 1 ELSE i
\* \w+
Word(s, i) == IF i = 0 THEN 0 ELSE LET j == Span(s, i, WordSet) IN IF j > i THEN j ELSE 0
\* [^...]+
NotIn1(s, i, S) == IF i = 0 THEN 0 ELSE LET j == SpanNot(s, i, S) IN IF j > i THEN j ELSE 0

\* the text a matcher consumed between two positions
Cut(s, from, to) == SubSeq(s, from, to - 1)

-----------------------------------------------------------------------------
\* internal/schema/parser.go: ParseDDL

kwCREATE == "CREATE"
kwTABLE == "TABLE"
kwIF == "IF"
kwNOT == "NOT"
kwEXISTS == "EXISTS"
kwPRIMARY == "PRIMARY"
kwKEY == "KEY"
kwFOREIGN == "FOREIGN"
kwCONSTRAINT == "CONSTRAINT"
kwREFERENCES == "REFERENCES"
kwUNIQUE == "UNIQUE"
kwINDEX == "INDEX"
kwON == "ON"
kwDEFAULT == "DEFAULT"
kwCOMMENT == "COMMENT"

\* tablePattern, after CREATE\s+TABLE\s+(IF NOT EXISTS)?:
\*   q?(\w+)q?\s*\(([\s\S]*?)\)
\* The body group is lazy: it ends before the first ")" after the opening "(".
TableTail(s, i) ==
    LET n1 == Opt(s, i, QuoteOpenSet)
        n2 == Word(s, n1)
        n3 == Opt(s, n2, QuoteCloseSet)
        op == Ch(s, Ws0(s, n3), "(")
        cl == IF op = 0 THEN 0 ELSE SpanNot(s, op, {")"})
    IN  IF op # 0 /\ cl <= Len(s)
        THEN [end |-> cl + 1, name |-> Cut(s, n1, n2), body |-> Cut(s, op, cl)]
        ELSE [end |-> 0, name |-> "", body |-> ""]

\* tablePattern tried at position p:
\*   (?i)CREATE\s+TABLE\s+(?:IF\s+NOT\s+EXISTS\s+)?...
tablePattern(s, p) ==
    LET d == Ws1(s, Lit(s, Ws1(s, Lit(s, p, kwCREATE)), kwTABLE))
        g == Ws1(s, Lit(s, Ws1(s, Lit(s, Ws1(s, Lit(s, d, kwIF)), kwNOT)), kwEXISTS))
    IN  IF g # 0 /\ TableTail(s, g).end # 0 THEN TableTail(s, g) ELSE TableTail(s, d)

\* tablePattern.FindAllStringSubmatch(ddl, -1): the leftmost matches, each
\* search starting where the previous match ended
RECURSIVE FindAllTables(_, _)
FindAllTables(s, from) ==
    LET Matches(p) == tablePattern(s, p).end # 0
        p == Least({q \in from..Len(s) : Matches(q)})
    IN  IF p = 0 THEN <<>>
        ELSE <<tablePattern(s, p)>> \o FindAllTables(s, tablePattern(s, p).end)

\* columnPattern.FindStringSubmatch(line):
\*   ^\s*q?(\w+)q?\s+(\w+(?:\([^)]+\))?)\s*(.*)$
\* "." matches no newline and "$" only the end of the text.
columnPattern(line) ==
    LET n1 == Opt(line, Ws0(line, 1), QuoteOpenSet)
        n2 == Word(line, n1)
        t1 == Ws1(line, Opt(line, n2, QuoteCloseSet))
        t2 == Word(line, t1)
        g3 == Ch(line, NotIn1(line, Ch(line, t2, "("), {")"}), ")")
        t3 == IF g3 # 0 THEN g3 ELSE t2
        r1 == Ws0(line, t3)
        rest == SubSeq(line, r1, Len(line))
    IN  IF t2 # 0 /\ \A k \in 1..Len(rest) : At(rest, k) # "\n"
        THEN [ok |-> TRUE, name |-> Cut(line, n1, n2), type |-> Cut(line, t1, t3),
              rest |-> rest]
        ELSE [ok |-> FALSE, name |-> "", type |-> "", rest |-> ""]

\* defaultPattern (?i)DEFAULT\s+([^\s,]+): group 1 of the leftmost match, <<>> if none
defaultPattern(s) ==
    LET End(p) == NotIn1(s, Ws1(s, Lit(s, p, kwDEFAULT)), SpaceSet \cup {","})
        Matches(p) == End(p) # 0
        p == Least({q \in 1..Len(s) : Matches(q)})
    IN  IF p = 0 THEN "" ELSE Cut(s, Ws1(s, Lit(s, p, kwDEFAULT)), End(p))

\* commentPattern (?i)COMMENT\s+'([^']*)': group 1 of the leftmost match, <<>> if none
commentPattern(s) ==
    LET Open(p) == Ch(s, Ws1(s, Lit(s, p, kwCOMMENT)), "'")
        Close(p) == IF Open(p) = 0 THEN 0 ELSE Ch(s, SpanNot(s, Open(p), {"'"}), "'")
        Matches(p) == Close(p) # 0
        p == Least({q \in 1..Len(s) : Matches(q)})
    IN  IF p = 0 THEN "" ELSE Cut(s, Open(p), Close(p) - 1)

\* the clauses parseColumns skips as table-level constraints
IsConstraintLine(line) ==
    LET upperLine == ToUpper(line)
    IN  \/ HasPrefix(upperLine, "PRIMARY KEY")
        \/ HasPrefix(upperLine, "FOREIGN KEY")
        \/ HasPrefix(upperLine, "CONSTRAINT")
        \/ HasPrefix(upperLine, "INDEX")
        \/ HasPrefix(upperLine, "KEY")
        \/ HasPrefix(upperLine, "UNIQUE")

\* the Column parseColumns builds from a columnPattern match
ColumnOf(match) ==
    LET constraints == ToUpper(match.rest)
    IN  [Name |-> match.name,
         Type |-> match.type,
         Nullable |-> ~Contains(constraints, "NOT NULL"),
         Default |-> defaultPattern(match.rest),
         Comment |-> commentPattern(match.rest),
         IsPK |-> Contains(constraints, "PRIMARY KEY"),
         IsFK |-> FALSE,
         IsUnique |-> Contains(constraints, "UNIQUE"),
         IsAutoIncr |-> \/ Contains(constraints, "AUTO_INCREMENT")
                        \/ Contains(ToUpper(match.type), "SERIAL")
                        \/ Contains(constraints, "IDENTITY")]

\* the loop of parseColumns over the pieces of strings.Split(columnsDef, ",")
RECURSIVE parseColumnLines(_, _)
parseColumnLines(lines, columns) ==
    IF Len(lines) = 0 THEN columns
    ELSE LET line == TrimSpace(Head(lines))
             match == columnPattern(line)
         IN  IF IsConstraintLine(line) \/ ~match.ok
             THEN parseColumnLines(Tail(lines), columns)
             ELSE parseColumnLines(Tail(lines), GoAppend(columns, ColumnOf(match)))

\* the split of a table body into clauses: strings.Split(columnsDef, ",")
SplitClauses(columnsDef) == Split(columnsDef, ",")

parseColumns(columnsDef) == parseColumnLines(SplitClauses(columnsDef), NilSlice)

\* the names of a column list: split on ",", TrimSpace, strings.Trim of the
\* quote characters, empty names dropped
RECURSIVE KeyNames(_, _)
KeyNames(cols, pks) ==
    IF Len(cols) = 0 THEN pks
    ELSE LET col == TrimSet(TrimSpace(Head(cols)), QuoteCutset)
         IN  KeyNames(Tail(cols), IF col # "" THEN GoAppend(pks, col) ELSE pks)

\* pkPattern (?i)PRIMARY\s+KEY\s*\(([^)]+)\) : needs the closing ")"
parsePrimaryKey(columnsDef) ==
    LET s == columnsDef
        Open(p) == Ch(s, Ws0(s, Lit(s, Ws1(s, Lit(s, p, kwPRIMARY)), kwKEY)), "(")
        End(p) == Ch(s, NotIn1(s, Open(p), {")"}), ")")
        Matches(p) == End(p) # 0
        p == Least({q \in 1..Len(s) : Matches(q)})
    IN  IF p = 0 THEN NilSlice
        ELSE KeyNames(Split(Cut(s, Open(p), End(p) - 1), ","), NilSlice)

\* q?(\w+)q? from position i: [from, to, end], end = 0 when no match
QuotedWord(s, i) ==
    LET n1 == Opt(s, i, QuoteOpenSet)
        n2 == Word(s, n1)
    IN  [from |-> n1, to |-> n2, end |-> Opt(s, n2, QuoteCloseSet)]

\* fkPattern from FOREIGN on:
\*   FOREIGN\s+KEY\s*\(q?(\w+)q?\)\s*REFERENCES\s+q?(\w+)q?\s*\(q?(\w+)q?\)
ForeignTail(s, i, name) ==
    LET c == QuotedWord(s, Ch(s, Ws0(s, Lit(s, Ws1(s, Lit(s, i, kwFOREIGN)), kwKEY)), "("))
        t == QuotedWord(s, Ws1(s, Lit(s, Ws0(s, Ch(s, c.end, ")")), kwREFERENCES)))
        r == QuotedWord(s, Ch(s, Ws0(s, t.end), "("))
        e == Ch(s, r.end, ")")
    IN  IF e # 0
        THEN [end |-> e, name |-> name, column |-> Cut(s, c.from, c.to),
              refTable |-> Cut(s, t.from, t.to), refColumn |-> Cut(s, r.from, r.to)]
        ELSE [end |-> 0, name |-> "", column |-> "", refTable |-> "", refColumn |-> ""]

\* fkPattern tried at position p: (?i)(?:CONSTRAINT\s+(\w+)\s+)?FOREIGN...
fkPattern(s, p) ==
    LET n1 == Ws1(s, Lit(s, p, kwCONSTRAINT))
        n2 == Word(s, n1)
        g == Ws1(s, n2)
    IN  IF g # 0 /\ ForeignTail(s, g, "").end # 0
        THEN ForeignTail(s, g, Cut(s, n1, n2))
        ELSE ForeignTail(s, p, "")

\* the FK parseForeignKeys builds from a match; fmt.Sprintf("fk_%s_%s", ...)
FKOf(match) ==
    [Name |-> IF match.name # "" THEN match.name
              ELSE "fk_" \o match.column \o "_" \o match.refTable,
     Column |-> match.column,
     RefTable |-> match.refTable,
     RefColumn |-> match.refColumn,
     OnDelete |-> "",
     OnUpdate |-> ""]

RECURSIVE FindAllFKs(_, _, _)
FindAllFKs(s, from, fks) ==
    LET Matches(p) == fkPattern(s, p).end # 0
        p == Least({q \in from..Len(s) : Matches(q)})
    IN  IF p = 0 THEN fks
        ELSE FindAllFKs(s, fkPattern(s, p).end, GoAppend(fks, FKOf(fkPattern(s, p))))

parseForeignKeys(columnsDef) == FindAllFKs(columnsDef, 1, NilSlice)

\* indexPattern tried at position p:
\*   (?i)CREATE\s+(UNIQUE\s+)?INDEX\s+q?(\w+)q?\s+ON\s+q?(\w+)q?\s*\(([^)]+)\)
IndexTail(s, i, unique) ==
    LET n == QuotedWord(s, Ws1(s, Lit(s, i, kwINDEX)))
        t == QuotedWord(s, Ws1(s, Lit(s, Ws1(s, n.end), kwON)))
        op == Ch(s, Ws0(s, t.end), "(")
        e == Ch(s, NotIn1(s, op, {")"}), ")")
    IN  IF e # 0
        THEN [end |-> e, unique |-> unique, indexName |-> Cut(s, n.from, n.to),
              tableName |-> Cut(s, t.from, t.to), columnStr |-> Cut(s, op, e - 1)]
        ELSE [end |-> 0, unique |-> "", indexName |-> "", tableName |-> "", columnStr |-> ""]

indexPattern(s, p) ==
    LET c == Ws1(s, Lit(s, p, kwCREATE))
        u == Ws1(s, Lit(s, c, kwUNIQUE))
    IN  IF u # 0 /\ IndexTail(s, u, "").end # 0
        THEN IndexTail(s, u, Cut(s, c, u))
        ELSE IndexTail(s, c, "")

RECURSIVE FindAllIndexes(_, _)
FindAllIndexes(s, from) ==
    LET Matches(p) == indexPattern(s, p).end # 0
        p == Least({q \in from..Len(s) : Matches(q)})
    IN  IF p = 0 THEN <<>>
        ELSE <<indexPattern(s, p)>> \o FindAllIndexes(s, indexPattern(s, p).end)

\* one column token of a CREATE INDEX list: TrimSpace, strings.Trim of the
\* quote characters, then strings.Split(col, " ")[0] to drop ASC/DESC
IndexColumn(tok) == Split(TrimSet(TrimSpace(tok), QuoteCutset), " ")[1]

RECURSIVE IndexColumns(_, _)
IndexColumns(cols, columns) ==
    IF Len(cols) = 0 THEN columns
    ELSE LET col == IndexColumn(Head(cols))
         IN  IndexColumns(Tail(cols), IF col # "" THEN GoAppend(columns, col) ELSE columns)

\* the Index parseIndexes builds from a match
IndexOfMatch(match) ==
    [Name |-> match.indexName,
     Columns |-> IndexColumns(Split(match.columnStr, ","), NilSlice),
     IsUnique |-> TrimSpace(match.unique) # "",
     Type |-> "BTREE"]

\* the table an index is attached to: the first whose name equals tableName
\* under strings.EqualFold (then break), 0 when there is none
AttachTo(tables, tableName) ==
    LET Same(i) == EqualFold(tables[i].Name, tableName)
    IN  Least({q \in 1..Len(tables) : Same(q)})

\* the loop of parseIndexes over the matches, on the tables parsed so far
RECURSIVE AttachIndexes(_, _)
AttachIndexes(matches, tables) ==
    IF Len(matches) = 0 THEN tables
    ELSE LET i == AttachTo(tables, Head(matches).tableName)
             idx == IndexOfMatch(Head(matches))
         IN  AttachIndexes(Tail(matches),
                 IF i = 0 THEN tables
                 ELSE [tables EXCEPT ![i].Indexes = GoAppend(@, idx)])

\* parseIndexes(ddl, schema): scans the whole text, after every table is parsed
parseIndexes(text, tables) == AttachIndexes(FindAllIndexes(text, 1), tables)

\* the Table ParseDDL builds from one tablePattern match
TableOf(match) ==
    [Name |-> match.name,
     Columns |-> parseColumns(match.body),
     PrimaryKey |-> parsePrimaryKey(match.body),
     ForeignKeys |-> parseForeignKeys(match.body),
     Indexes |-> NilSlice]

RECURSIVE TablesOf(_)
TablesOf(matches) ==
    IF Len(matches) = 0 THEN <<>>
    ELSE <<TableOf(Head(matches))>> \o TablesOf(Tail(matches))

\* ParseDDL with Tables left nil until a table is appended
ParseDDL_NilTables(text, tag) ==
    [err |-> FALSE,
     isNil |-> FALSE,
     schema |-> [Database |-> "",
                 DBType |-> tag,
                 Tables |-> [isNil |-> FindAllTables(text, 1) = <<>>,
                             v |-> parseIndexes(text, TablesOf(FindAllTables(text, 1)))]]]

\* ParseDDL(ddl, dbType): (schema, err). Tables starts as []models.Table{}.
ParseDDL(text, tag) ==
    [err |-> FALSE,
     isNil |-> FALSE,
     schema |-> [Database |-> "",
                 DBType |-> tag,
                 Tables |-> [isNil |-> FALSE,
                             v |-> parseIndexes(text, TablesOf(FindAllTables(text, 1)))]]]

-----------------------------------------------------------------------------
\* The AI response extractors (internal/ai): parseQueryResponse,
\* parseValidationResponse, parseIssue.
\*
\* The source writes its headers and a few words in Hangul and one bullet as
\* U+2022. They are fixed byte strings compared with HasPrefix, TrimPrefix,
\* TrimSuffix, Contains and ==; here each is written in Latin letters,
\* syllable by syllable, so that one is a prefix or a part of another exactly
\* when it is in the source (yuhyo in yuhyoseong, jeom in jeomsu).

hdrSQL == "SQL:"
hdrExplain == "seolmyeong:"
hdrTips == "choejeokhwa tip:"
hdrValid == "yuhyoseong:"
hdrScore == "jeomsu:"
hdrIssues == "munjejeom:"
hdrIndexes == "indekseu hwaryong:"
hdrOptimized == "choejeokhwadoen kwori:"
hdrPlan == "silhaeng gyehoek:"
hdrTime == "yesang sigan:"
hdrSuggestions == "gaeseon jean:"
wordValid == "yuhyo"
wordPoints == "jeom"
wordNone == "eopseum"
wordOptimal == "wonbon kworiga choejeok"
labelLocation == "wichi:"
labelFix == "haegyeol:"
bulletDash == "-"
bulletDot == "*"

Fence == BackQuote \o BackQuote \o BackQuote
FenceSql == Fence \o "sql"

\* the line starts with a bullet
IsBulleted(trimmed) == HasPrefix(trimmed, bulletDash) \/ HasPrefix(trimmed, bulletDot)

\* StripBullet leaving the line as it is
StripBullet_Keep(trimmed) == trimmed

\* the text of a bulleted line: each bullet taken off once, dash first, then trimmed
StripBullet(trimmed) ==
    TrimSpace(TrimPrefix(TrimPrefix(trimmed, bulletDash), bulletDot))

\* the scanner state of parseQueryResponse before the first line
QueryStart ==
    [section |-> "", queryLines |-> NilSlice, explainLines |-> NilSlice,
     tips |-> EmptySlice]

\* one turn of parseQueryResponse's loop
QueryLine(st, line) ==
    LET trimmed == TrimSpace(line)
    IN  IF HasPrefix(trimmed, hdrSQL) THEN [st EXCEPT !.section = "sql"]
        ELSE IF HasPrefix(trimmed, hdrExplain) THEN [st EXCEPT !.section = "explain"]
        ELSE IF HasPrefix(trimmed, hdrTips) THEN [st EXCEPT !.section = "tips"]
        ELSE IF st.section = "sql"
        THEN IF trimmed # "" /\ trimmed # FenceSql /\ trimmed # Fence
             THEN [st EXCEPT !.queryLines = GoAppend(st.queryLines, line)]
             ELSE st
        ELSE IF st.section = "explain"
        THEN IF trimmed # ""
             THEN [st EXCEPT !.explainLines = GoAppend(st.explainLines, trimmed)]
             ELSE st
        ELSE IF st.section = "tips"
        THEN IF IsBulleted(trimmed)
             THEN [st EXCEPT !.tips = GoAppend(st.tips, StripBullet(trimmed))]
             ELSE st
        ELSE st

RECURSIVE QueryLines(_, _, _)
QueryLines(lines, i, st) ==
    IF i > Len(lines) THEN st
    ELSE QueryLines(lines, i + 1, QueryLine(st, lines[i]))

\* the block markers parseQueryResponse takes off the joined query
StripQueryFence(query) ==
    TrimSuffix(TrimPrefix(TrimPrefix(query, FenceSql), Fence), Fence)

parseQueryResponse(response) ==
    LET st == QueryLines(Split(response, "\n"), 1, QueryStart)
    IN  [query |-> TrimSpace(StripQueryFence(TrimSpace(Join(st.queryLines.v, "\n")))),
         explanation |-> Join(st.explainLines.v, " "),
         tips |-> st.tips]

DigitSet == {At(Digits, i) : i \in 1..10}

\* the value of a decimal digit
DigitValue(c) ==
    CASE c = "0" -> 0 [] c = "1" -> 1 [] c = "2" -> 2 [] c = "3" -> 3
      [] c = "4" -> 4 [] c = "5" -> 5 [] c = "6" -> 6 [] c = "7" -> 7
      [] c = "8" -> 8 [] c = "9" -> 9

RECURSIVE DecimalValue(_)
DecimalValue(digits) ==
    IF digits = "" THEN 0
    ELSE 10 * DecimalValue(SubSeq(digits, 1, Len(digits) - 1))
         + DigitValue(At(digits, Len(digits)))

\* digit strings longer than this (leading zeros apart) are numbers over 100
\* or overflow int64: Sscanf leaves either a large value or 0, and
\* parseValidationResponse treats both alike (score <= 100 fails, score > 0 fails)
ScanDigits == 9
ScanLarge == 1000000000

\* fmt.Sscanf(s, "%d", &score), score 0 before: blanks skipped, an optional
\* sign, then the longest run of digits and underscores, which
\* strconv.ParseInt reads in base 10: no digit, or an underscore in the run,
\* leaves score 0; what follows the run is not read
ScanInt_NoSign(s) ==
    LET start == Span(s, 1, {" ", "\t", "\r"})
        signed == start <= Len(s) /\ At(s, start) \in {"+", "-"}
        from == IF signed THEN start + 1 ELSE start
        to == Span(s, from, DigitSet \cup {"_"})
        first == Span(s, from, {"0"})
        significant == IF first < to THEN Cut(s, first, to) ELSE ""
    IN  IF to = from \/ Contains(Cut(s, from, to), "_") THEN 0
        ELSE IF Len(significant) > ScanDigits THEN ScanLarge
        ELSE DecimalValue(significant)

ScanInt(s) ==
    LET start == Span(s, 1, {" ", "\t", "\r"})
        signed == start <= Len(s) /\ At(s, start) \in {"+", "-"}
        from == IF signed THEN start + 1 ELSE start
        to == Span(s, from, DigitSet \cup {"_"})
        first == Span(s, from, {"0"})
        significant == IF first < to THEN Cut(s, first, to) ELSE ""
        n == IF Len(significant) > ScanDigits THEN ScanLarge
             ELSE DecimalValue(significant)
    IN  IF to = from \/ Contains(Cut(s, from, to), "_") THEN 0
        ELSE IF signed /\ At(s, start) = "-" THEN 0 - n ELSE n

\* strings.Replace(s, old, "", 1)
RemoveFirst(s, old) ==
    LET i == IndexOf(s, old)
    IN  IF i = 0 THEN s
        ELSE SubSeq(s, 1, i - 1) \o SubSeq(s, i + Len(old), Len(s))

\* parseIssue: the severity tag of the line and the line without it
IssueTag(line) ==
    IF Contains(line, "[error]") THEN "error"
    ELSE IF Contains(line, "[warning]") THEN "warning"
    ELSE "info"

IssueText(line) ==
    IF Contains(line, "[error]") THEN RemoveFirst(line, "[error]")
    ELSE IF Contains(line, "[warning]") THEN RemoveFirst(line, "[warning]")
    ELSE IF Contains(line, "[info]") THEN RemoveFirst(line, "[info]")
    ELSE line

parseIssue(bulleted) ==
    LET line == TrimSpace(TrimPrefix(TrimPrefix(bulleted, bulletDash), bulletDot))
        parts == Split(IssueText(line), "|")
    IN  [Type |-> IssueTag(line),
         Message |-> TrimSpace(parts[1]),
         Location |-> IF Len(parts) >= 2
                      THEN TrimSpace(TrimPrefix(parts[2], labelLocation)) ELSE "",
         Suggestion |-> IF Len(parts) >= 3
                        THEN TrimSpace(TrimPrefix(parts[3], labelFix)) ELSE ""]

\* the record parseValidationResponse seeds before it reads a line
SeedValidation(originalQuery) ==
    [OriginalQuery |-> originalQuery, IsValid |-> TRUE, Score |-> 50,
     Issues |-> EmptySlice, Suggestions |-> EmptySlice, IndexUsage |-> EmptySlice,
     OptimizedQuery |-> originalQuery, ExecutionPlan |-> "", EstimatedTime |-> ""]

\* the value after a header on its line
AfterHeader(trimmed, hdr) == TrimSpace(TrimPrefix(trimmed, hdr))

\* the section a header line opens, "" when the line is no section header
SectionOf(trimmed) ==
    IF HasPrefix(trimmed, hdrIssues) THEN "issues"
    ELSE IF HasPrefix(trimmed, hdrIndexes) THEN "indexes"
    ELSE IF HasPrefix(trimmed, hdrOptimized) THEN "optimized"
    ELSE IF HasPrefix(trimmed, hdrPlan) THEN "plan"
    ELSE IF HasPrefix(trimmed, hdrTime) THEN "time"
    ELSE IF HasPrefix(trimmed, hdrSuggestions) THEN "suggestions"
    ELSE ""

\* a line that is no header, read in the current section
SectionLine(st, trimmed) ==
    LET v == st.validation
    IN  CASE st.section = "issues" ->
               IF IsBulleted(trimmed) /\ parseIssue(trimmed).Message # ""
               THEN [st EXCEPT !.validation.Issues = GoAppend(v.Issues, parseIssue(trimmed))]
               ELSE st
          [] st.section = "indexes" ->
               IF IsBulleted(trimmed) /\ StripBullet(trimmed) \notin {"", wordNone}
               THEN [st EXCEPT !.validation.IndexUsage =
                                   GoAppend(v.IndexUsage, StripBullet(trimmed))]
               ELSE st
          [] st.section = "optimized" ->
               IF trimmed # "" /\ ~Contains(trimmed, wordOptimal)
                  /\ trimmed # FenceSql /\ trimmed # Fence
               THEN [st EXCEPT !.validation.OptimizedQuery =
                                   IF v.OptimizedQuery = v.OriginalQuery THEN trimmed
                                   ELSE v.OptimizedQuery \o "\n" \o trimmed]
               ELSE st
          [] st.section = "plan" ->
               IF trimmed # ""
               THEN [st EXCEPT !.validation.ExecutionPlan =
                                   IF v.ExecutionPlan = "" THEN trimmed
                                   ELSE v.ExecutionPlan \o " " \o trimmed]
               ELSE st
          [] st.section = "suggestions" ->
               IF IsBulleted(trimmed) /\ StripBullet(trimmed) # ""
               THEN [st EXCEPT !.validation.Suggestions =
                                   GoAppend(v.Suggestions, StripBullet(trimmed))]
               ELSE st
          [] OTHER -> st

\* the loop's turn, were a validity, score or time line to end the section
ValidationLine_EndsSection(st, line) ==
    LET trimmed == TrimSpace(line)
        val == AfterHeader(trimmed, hdrValid)
        score == ScanInt(TrimSuffix(AfterHeader(trimmed, hdrScore), wordPoints))
    IN  IF HasPrefix(trimmed, hdrValid)
        THEN [st EXCEPT !.section = "",
                        !.validation.IsValid =
                            Contains(ToLower(val), "true") \/ Contains(val, wordValid)]
        ELSE IF HasPrefix(trimmed, hdrScore)
        THEN IF score > 0 /\ score <= 100
             THEN [st EXCEPT !.section = "", !.validation.Score = score]
             ELSE [st EXCEPT !.section = ""]
        ELSE IF SectionOf(trimmed) = "time"
        THEN [st EXCEPT !.section = "",
                        !.validation.EstimatedTime = AfterHeader(trimmed, hdrTime)]
        ELSE IF SectionOf(trimmed) # ""
        THEN [st EXCEPT !.section = SectionOf(trimmed)]
        ELSE SectionLine(st, trimmed)

\* one turn of parseValidationResponse's loop
ValidationLine(st, line) ==
    LET trimmed == TrimSpace(line)
        val == AfterHeader(trimmed, hdrValid)
        score == ScanInt(TrimSuffix(AfterHeader(trimmed, hdrScore), wordPoints))
    IN  IF HasPrefix(trimmed, hdrValid)
        THEN [st EXCEPT !.validation.IsValid =
                            Contains(ToLower(val), "true") \/ Contains(val, wordValid)]
        ELSE IF HasPrefix(trimmed, hdrScore)
        THEN IF score > 0 /\ score <= 100
             THEN [st EXCEPT !.validation.Score = score]
             ELSE st
        ELSE IF SectionOf(trimmed) = "time"
        THEN [st EXCEPT !.validation.EstimatedTime = AfterHeader(trimmed, hdrTime)]
        ELSE IF SectionOf(trimmed) # ""
        THEN [st EXCEPT !.section = SectionOf(trimmed)]
        ELSE SectionLine(st, trimmed)

RECURSIVE ValidationLines(_, _, _)
ValidationLines(lines, i, st) ==
    IF i > Len(lines) THEN st
    ELSE ValidationLines(lines, i + 1, ValidationLine(st, lines[i]))

\* the last step of parseValidationResponse on the optimized query
CleanOptimized(optimized, originalQuery) ==
    LET cleaned == TrimSpace(TrimSuffix(TrimPrefix(optimized, FenceSql), Fence))
    IN  IF cleaned = "" THEN originalQuery ELSE cleaned

parseValidationResponse(response, originalQuery) ==
    LET st == ValidationLines(Split(response, "\n"), 1,
                              [section |-> "", validation |-> SeedValidation(originalQuery)])
    IN  [st.validation EXCEPT
            !.OptimizedQuery = CleanOptimized(st.validation.OptimizedQuery, originalQuery)]

\* the results before a call
NoQueryResult == [query |-> "", explanation |-> "", tips |-> NilSlice]
NoValidation == [SeedValidation("") EXCEPT !.Score = 0, !.IsValid = FALSE,
                    !.Issues = NilSlice, !.Suggestions = NilSlice, !.IndexUsage = NilSlice]

-----------------------------------------------------------------------------
\* encoding/json, as ParseJSON and ToJSON use it (parser.go, pkg/models).
\*
\* A JSON text is its sequence of tokens: the white space between tokens,
\* which json.Unmarshal skips and json.MarshalIndent writes in one fixed way,
\* is left out, and a string token holds the string it denotes. A Go value
\* is a record with the fields of its struct.

Tok(t) == [t |-> t, s |-> ""]
StrTok(s) == [t |-> "str", s |-> s]
NumTok(s) == [t |-> "num", s |-> s]

\* the values a JSON text denotes
JNode(k, s, b, items) == [k |-> k, s |-> s, b |-> b, items |-> items]
JNull == JNode("null", "", FALSE, <<>>)
JStr(s) == JNode("str", s, FALSE, <<>>)
JNum(s) == JNode("num", s, FALSE, <<>>)
JBool(b) == JNode("bool", "", b, <<>>)
JArr(items) == JNode("arr", "", FALSE, items)
\* an object: its members [key, val] in the order of the text
JObj(members) == JNode("obj", "", FALSE, members)

NoValue == [ok |-> FALSE, v |-> JNull, next |-> 0]
Value(v, next) == [ok |-> TRUE, v |-> v, next |-> next]

\* the scanner of encoding/json: the value that starts at token i and the
\* position after it
RECURSIVE ScanValue(_, _)
RECURSIVE ScanItems(_, _, _)
RECURSIVE ScanMembers(_, _, _)
ScanValue(toks, i) ==
    IF i > Len(toks) THEN NoValue
    ELSE CASE toks[i].t = "str" -> Value(JStr(toks[i].s), i + 1)
           [] toks[i].t = "num" -> Value(JNum(toks[i].s), i + 1)
           [] toks[i].t = "true" -> Value(JBool(TRUE), i + 1)
           [] toks[i].t = "false" -> Value(JBool(FALSE), i + 1)
           [] toks[i].t = "null" -> Value(JNull, i + 1)
           [] toks[i].t = "[" ->
                IF i + 1 <= Len(toks) /\ toks[i + 1].t = "]"
                THEN Value(JArr(<<>>), i + 2)
                ELSE ScanItems(toks, i + 1, <<>>)
           [] toks[i].t = "{" ->
                IF i + 1 <= Len(toks) /\ toks[i + 1].t = "}"
                THEN Value(JObj(<<>>), i + 2)
                ELSE ScanMembers(toks, i + 1, <<>>)
           [] OTHER -> NoValue

\* the items of an array from token i, which is to start an item
ScanItems(toks, i, items) ==
    LET item == ScanValue(toks, i)
    IN  IF ~item.ok \/ item.next > Len(toks) THEN NoValue
        ELSE IF toks[item.next].t = ","
        THEN ScanItems(toks, item.next + 1, Append(items, item.v))
        ELSE IF toks[item.next].t = "]"
        THEN Value(JArr(Append(items, item.v)), item.next + 1)
        ELSE NoValue

\* the members of an object from token i, which is to start a member
ScanMembers(toks, i, members) ==
    IF i + 1 > Len(toks) \/ toks[i].t # "str" \/ toks[i + 1].t # ":" THEN NoValue
    ELSE LET val == ScanValue(toks, i + 2)
             member == [key |-> toks[i].s, val |-> val.v]
         IN  IF ~val.ok \/ val.next > Len(toks) THEN NoValue
             ELSE IF toks[val.next].t = ","
             THEN ScanMembers(toks, val.next + 1, Append(members, member))
             ELSE IF toks[val.next].t = "}"
             THEN Value(JObj(Append(members, member)), val.next + 1)
             ELSE NoValue

\* checkValid: the text is one JSON value and nothing after it
Valid(toks) == \E scan \in {ScanValue(toks, 1)} : scan.ok /\ scan.next = Len(toks) + 1

\* the value json.Unmarshal stores for the field of the given JSON name: that
\* of the last member whose key equals the name, letter case apart; a field
\* with no member keeps its zero value, as under null
FieldOf(obj, name) ==
    LET hits == {i \in 1..Len(obj.items) : EqualFold(obj.items[i].key, name)}
    IN  IF obj.k # "obj" \/ hits = {} THEN JNull ELSE obj.items[Greatest(hits)].val

\* encoding/json reads and writes strings as valid UTF-8: a byte that is
\* not part of a valid encoding becomes U+FFFD. "#" stands for such a byte
\* and "?" for U+FFFD.
InvalidByte == "#"
ReplacementChar == "?"

RECURSIVE ToValidUTF8(_)
ToValidUTF8(s) ==
    IF s = "" THEN ""
    ELSE (IF At(s, 1) = InvalidByte THEN ReplacementChar ELSE At(s, 1))
         \o ToValidUTF8(SubSeq(s, 2, Len(s)))

\* The decoder. Decode<T>(node) is the value stored for a JSON value, and
\* <T>Err(node) tells whether an UnmarshalTypeError was met on the way: null
\* leaves the zero value, a value of another kind than the field's is an
\* error and leaves the zero value too, and decoding goes on after an error.
DecodeString(node) == IF node.k = "str" THEN ToValidUTF8(node.s) ELSE ""
DecodeBool(node) == node.k = "bool" /\ node.b

StringErr(node) == node.k \notin {"str", "null"}
BoolErr(node) == node.k \notin {"bool", "null"}
StructErr(node) == node.k \notin {"obj", "null"}
SliceErr(node) == node.k \notin {"arr", "null"}

\* a slice: nil under null, else one element per item of the array
DecodeStrings(node) ==
    IF node.k # "arr" THEN NilSlice
    ELSE [isNil |-> FALSE, v |-> [i \in 1..Len(node.items) |-> DecodeString(node.items[i])]]

StringsErr(node) ==
    \/ SliceErr(node)
    \/ node.k = "arr" /\ \E i \in 1..Len(node.items) : StringErr(node.items[i])

DecodeColumn(node) ==
    [Name |-> DecodeString(FieldOf(node, "name")),
     Type |-> DecodeString(FieldOf(node, "type")),
     Nullable |-> DecodeBool(FieldOf(node, "nullable")),
     Default |-> DecodeString(FieldOf(node, "default")),
     Comment |-> DecodeString(FieldOf(node, "comment")),
     IsPK |-> DecodeBool(FieldOf(node, "is_pk")),
     IsFK |-> DecodeBool(FieldOf(node, "is_fk")),
     IsUnique |-> DecodeBool(FieldOf(node, "is_unique")),
     IsAutoIncr |-> DecodeBool(FieldOf(node, "is_auto_incr"))]

ColumnErr(node) ==
    \/ StructErr(node)
    \/ StringErr(FieldOf(node, "name"))
    \/ StringErr(FieldOf(node, "type"))
    \/ BoolErr(FieldOf(node, "nullable"))
    \/ StringErr(FieldOf(node, "default"))
    \/ StringErr(FieldOf(node, "comment"))
    \/ BoolErr(FieldOf(node, "is_pk"))
    \/ BoolErr(FieldOf(node, "is_fk"))
    \/ BoolErr(FieldOf(node, "is_unique"))
    \/ BoolErr(FieldOf(node, "is_auto_incr"))

DecodeForeignKey(node) ==
    [Name |-> DecodeString(FieldOf(node, "name")),
     Column |-> DecodeString(FieldOf(node, "column")),
     RefTable |-> DecodeString(FieldOf(node, "ref_table")),
     RefColumn |-> DecodeString(FieldOf(node, "ref_column")),
     OnDelete |-> DecodeString(FieldOf(node, "on_delete")),
     OnUpdate |-> DecodeString(FieldOf(node, "on_update"))]

ForeignKeyErr(node) ==
    \/ StructErr(node)
    \/ StringErr(FieldOf(node, "name"))
    \/ StringErr(FieldOf(node, "column"))
    \/ StringErr(FieldOf(node, "ref_table"))
    \/ StringErr(FieldOf(node, "ref_column"))
    \/ StringErr(FieldOf(node, "on_delete"))
    \/ StringErr(FieldOf(node, "on_update"))

DecodeIndex(node) ==
    [Name |-> DecodeString(FieldOf(node, "name")),
     Columns |-> DecodeStrings(FieldOf(node, "columns")),
     IsUnique |-> DecodeBool(FieldOf(node, "is_unique")),
     Type |-> DecodeString(FieldOf(node, "type"))]

IndexErr(node) ==
    \/ StructErr(node)
    \/ StringErr(FieldOf(node, "name"))
    \/ StringsErr(FieldOf(node, "columns"))
    \/ BoolErr(FieldOf(node, "is_unique"))
    \/ StringErr(FieldOf(node, "type"))

DecodeColumns(node) ==
    IF node.k # "arr" THEN NilSlice
    ELSE [isNil |-> FALSE, v |-> [i \in 1..Len(node.items) |-> DecodeColumn(node.items[i])]]

ColumnsErr(node) ==
    \/ SliceErr(node)
    \/ node.k = "arr" /\ \E i \in 1..Len(node.items) : ColumnErr(node.items[i])

DecodeForeignKeys(node) ==
    IF node.k # "arr" THEN NilSlice
    ELSE [isNil |-> FALSE,
          v |-> [i \in 1..Len(node.items) |-> DecodeForeignKey(node.items[i])]]

ForeignKeysErr(node) ==
    \/ SliceErr(node)
    \/ node.k = "arr" /\ \E i \in 1..Len(node.items) : ForeignKeyErr(node.items[i])

DecodeIndexes(node) ==
    IF node.k # "arr" THEN NilSlice
    ELSE [isNil |-> FALSE, v |-> [i \in 1..Len(node.items) |-> DecodeIndex(node.items[i])]]

IndexesErr(node) ==
    \/ SliceErr(node)
    \/ node.k = "arr" /\ \E i \in 1..Len(node.items) : IndexErr(node.items[i])

DecodeTable(node) ==
    [Name |-> DecodeString(FieldOf(node, "name")),
     Columns |-> DecodeColumns(FieldOf(node, "columns")),
     PrimaryKey |-> DecodeStrings(FieldOf(node, "primary_key")),
     ForeignKeys |-> DecodeForeignKeys(FieldOf(node, "foreign_keys")),
     Indexes |-> DecodeIndexes(FieldOf(node, "indexes"))]

TableErr(node) ==
    \/ StructErr(node)
    \/ StringErr(FieldOf(node, "name"))
    \/ ColumnsErr(FieldOf(node, "columns"))
    \/ StringsErr(FieldOf(node, "primary_key"))
    \/ ForeignKeysErr(FieldOf(node, "foreign_keys"))
    \/ IndexesErr(FieldOf(node, "indexes"))

DecodeTables(node) ==
    IF node.k # "arr" THEN NilSlice
    ELSE [isNil |-> FALSE, v |-> [i \in 1..Len(node.items) |-> DecodeTable(node.items[i])]]

TablesErr(node) ==
    \/ SliceErr(node)
    \/ node.k = "arr" /\ \E i \in 1..Len(node.items) : TableErr(node.items[i])

DecodeSchema(node) ==
    [Database |-> DecodeString(FieldOf(node, "database")),
     DBType |-> DecodeString(FieldOf(node, "db_type")),
     Tables |-> DecodeTables(FieldOf(node, "tables"))]

SchemaErr(node) ==
    \/ StructErr(node)
    \/ StringErr(FieldOf(node, "database"))
    \/ TablesErr(FieldOf(node, "tables"))
    \/ StringErr(FieldOf(node, "db_type"))

\* var schema models.Schema: the zero Schema
NoSchema == [Database |-> "", DBType |-> "", Tables |-> NilSlice]

\* json.Unmarshal(data, &schema): a syntax error is found before anything
\* is stored; an UnmarshalTypeError is returned after the rest was stored
UnmarshalErr(data) == ~Valid(data) \/ SchemaErr(ScanValue(data, 1).v)
Unmarshal(data) == IF Valid(data) THEN DecodeSchema(ScanValue(data, 1).v) ELSE NoSchema

\* parser.go ParseJSON: the Schema of a JSON document, or nil and the error
ParseJSON_Lenient(data) == [err |-> FALSE, isNil |-> FALSE, schema |-> Unmarshal(data)]

ParseJSON(data) ==
    IF UnmarshalErr(data)
    THEN [err |-> TRUE, isNil |-> TRUE, schema |-> NoSchema]
    ELSE [err |-> FALSE, isNil |-> FALSE, schema |-> Unmarshal(data)]

\* the encoder of encoding/json: the tokens of a value
RECURSIVE Commas(_)
Commas(parts) ==
    IF parts = <<>> THEN <<>>
    ELSE IF Len(parts) = 1 THEN parts[1]
    ELSE parts[1] \o <<Tok(",")>> \o Commas(Tail(parts))

Field(name, toks) == <<StrTok(name), Tok(":")>> \o toks

EncodeObject(fields) == <<Tok("{")>> \o Commas(fields) \o <<Tok("}")>>

EncodeString(s) == <<StrTok(ToValidUTF8(s))>>
EncodeBool(b) == <<Tok(IF b THEN "true" ELSE "false")>>

\* a nil slice is written as null, any other as an array
EncodeSlice(slice, elems) ==
    IF slice.isNil THEN <<Tok("null")>>
    ELSE <<Tok("[")>> \o Commas(elems) \o <<Tok("]")>>

EncodeStrings(slice) ==
    EncodeSlice(slice, [i \in 1..Len(slice.v) |-> EncodeString(slice.v[i])])

\* the fields written for a field tagged omitempty: none when its string is
\* empty
OmitEmpty_Never(name, s) == <<Field(name, EncodeString(s))>>
OmitEmpty(name, s) == IF s = "" THEN <<>> ELSE <<Field(name, EncodeString(s))>>

EncodeColumn(c) ==
    EncodeObject(<<Field("name", EncodeString(c.Name)),
                   Field("type", EncodeString(c.Type)),
                   Field("nullable", EncodeBool(c.Nullable))>>
                 \o OmitEmpty("default", c.Default)
                 \o OmitEmpty("comment", c.Comment)
                 \o <<Field("is_pk", EncodeBool(c.IsPK)),
                   Field("is_fk", EncodeBool(c.IsFK)),
                   Field("is_unique", EncodeBool(c.IsUnique)),
                   Field("is_auto_incr", EncodeBool(c.IsAutoIncr))>>)

EncodeForeignKey(fk) ==
    EncodeObject(<<Field("name", EncodeString(fk.Name)),
                   Field("column", EncodeString(fk.Column)),
                   Field("ref_table", EncodeString(fk.RefTable)),
                   Field("ref_column", EncodeString(fk.RefColumn))>>
                 \o OmitEmpty("on_delete", fk.OnDelete)
                 \o OmitEmpty("on_update", fk.OnUpdate))

EncodeIndex(idx) ==
    EncodeObject(<<Field("name", EncodeString(idx.Name)),
                   Field("columns", EncodeStrings(idx.Columns)),
                   Field("is_unique", EncodeBool(idx.IsUnique)),
                   Field("type", EncodeString(idx.Type))>>)

EncodeTable(t) ==
    EncodeObject(<<Field("name", EncodeString(t.Name)),
                   Field("columns",
                         EncodeSlice(t.Columns,
                                     [i \in 1..Len(t.Columns.v) |->
                                         EncodeColumn(t.Columns.v[i])])),
                   Field("primary_key", EncodeStrings(t.PrimaryKey)),
                   Field("foreign_keys",
                         EncodeSlice(t.ForeignKeys,
                                     [i \in 1..Len(t.ForeignKeys.v) |->
                                         EncodeForeignKey(t.ForeignKeys.v[i])])),
                   Field("indexes",
                         EncodeSlice(t.Indexes,
                                     [i \in 1..Len(t.Indexes.v) |->
                                         EncodeIndex(t.Indexes.v[i])]))>>)

\* json.MarshalIndent(schema, "", "  "): the fields in the order of the
\* struct; it cannot fail on a Schema
MarshalIndent(schema) ==
    EncodeObject(<<Field("database", EncodeString(schema.Database)),
                   Field("tables",
                         EncodeSlice(schema.Tables,
                                     [i \in 1..Len(schema.Tables.v) |->
                                         EncodeTable(schema.Tables.v[i])])),
                   Field("db_type", EncodeString(schema.DBType))>>)

\* parser.go ToJSON
ToJSON(schema) == MarshalIndent(schema)

\* a run that is not about JSON or the server leaves their variables at rest
NoDocument == [toks |-> <<>>, valid |-> FALSE, shaped |-> FALSE, canonical |-> FALSE]
NoParse == [err |-> FALSE, isNil |-> TRUE, schema |-> NoSchema]
NoRequest ==
    [path |-> "", method |-> "", bodyOK |-> FALSE, DDL |-> "", JSON |-> <<>>,
     DBType |-> ""]
NoResponse == [status |-> 0, success |-> FALSE, data |-> [isNil |-> TRUE, schema |-> NoSchema]]

JSONIdle == jsonIn = NoDocument /\ jsonOut = NoParse /\ jsonBack = <<>> /\ jsonAgain = NoParse
ServerIdle ==
    serverSchema = [isNil |-> TRUE, schema |-> NoSchema]
    /\ lastRequest = NoRequest /\ httpResponse = NoResponse

\* no error, and no table at hand
NoError == [op |-> "", table |-> "", at |-> ""]
NoTable ==
    [Name |-> "", Columns |-> NilSlice, PrimaryKey |-> NilSlice,
     ForeignKeys |-> NilSlice, Indexes |-> NilSlice]

\* ExtractSchema before it is called
NoExtract ==
    [tables |-> <<>>, i |-> 0, table |-> NoTable, schema |-> NoSchema,
     faults |-> 0, failed |-> NoError, ret |-> [isNil |-> TRUE, schema |-> NoSchema], err |-> NoError]

DBIdle == catalog = <<>> /\ extract = NoExtract

\* the clients of the server
Clients == {"a", "b"}

\* no request of the client is being served
NoHandler == [handler |-> "", pc |-> "", passed |-> [isNil |-> TRUE, schema |-> NoSchema]]
NoQuery == [form |-> "", table |-> "", limit |-> 0]

\* main: the server starts with no connection (s.dbConn nil)
ConnIdle ==
    /\ dbConn = 0 /\ connections = <<>> /\ sampleQuery = NoQuery
    /\ inflight = [c \in Clients |-> NoHandler]

-----------------------------------------------------------------------------
\* The DDL texts ParseDDL is run on. A text is written from a list of
\* statements; a statement keeps, beside its text, what it states, so that a
\* property can compare what the parser returns with what was written.

MaxClauses == 2      \* clauses in the body of a generated CREATE TABLE
MaxStmts == 3        \* statements in a text of several statements

\* pkg/models/types.go: the dialect tags
DBTypes == {"mysql", "postgresql", "oracle", "sqlserver"}

NoClause ==
    [kind |-> "", text |-> "", name |-> "", type |-> "", nullable |-> TRUE,
     default |-> "", isPK |-> FALSE, isAutoIncr |-> FALSE, names |-> <<>>,
     refTable |-> "", refColumn |-> ""]

ColumnClause(text, name, type, nullable, default, isPK, isAutoIncr) ==
    [NoClause EXCEPT !.kind = "col", !.text = text, !.name = name,
                     !.type = type, !.nullable = nullable,
                     !.default = default, !.isPK = isPK,
                     !.isAutoIncr = isAutoIncr]

\* PRIMARY KEY (<names>)
KeyClause(text, names) ==
    [NoClause EXCEPT !.kind = "pk", !.text = text, !.names = names]

\* [CONSTRAINT <name>] FOREIGN KEY (<names[1]>) REFERENCES <refTable>(<refColumn>);
\* name is the name the FK record is to carry
ForeignClause(text, name, column, refTable, refColumn) ==
    [NoClause EXCEPT !.kind = "fk", !.text = text, !.name = name,
                     !.names = <<column>>, !.refTable = refTable,
                     !.refColumn = refColumn]

IdPrimary ==
    ColumnClause("id INT PRIMARY KEY AUTO_INCREMENT", "id", "INT", FALSE, "", TRUE, TRUE)
NameNotNull ==
    ColumnClause("name VARCHAR(100) NOT NULL", "name", "VARCHAR(100)", FALSE, "", FALSE, FALSE)
XInt == ColumnClause("x INT", "x", "INT", TRUE, "", FALSE, FALSE)
YDecimal ==
    ColumnClause("y DECIMAL(10,2) DEFAULT 0.00", "y", "DECIMAL(10,2)", TRUE, "0.00", FALSE, FALSE)
KeyXY == KeyClause("PRIMARY KEY (x, \"y\")", <<"x", "y">>)
ForeignX == ForeignClause("FOREIGN KEY (x) REFERENCES b(x)", "fk_x_b", "x", "b", "x")
ForeignY ==
    ForeignClause("CONSTRAINT fk1 FOREIGN KEY (y) REFERENCES b (y)", "fk1", "y", "b", "y")

ClausePool == {IdPrimary, NameNotNull, XInt, YDecimal, KeyXY, ForeignX, ForeignY}

ClauseSeqs == UNION {[1..k -> ClausePool] : k \in 1..MaxClauses}

ClauseTexts(clauses) == [i \in 1..Len(clauses) |-> clauses[i].text]

\* the text between the parentheses of a CREATE TABLE written from clauses
BodyText(clauses) == Join(ClauseTexts(clauses), ", ")

NoStmt ==
    [kind |-> "other", text |-> "", name |-> "", clauses |-> <<>>, on |-> "",
     unique |-> FALSE, cols |-> <<>>]

TableStmt(name, clauses) ==
    [NoStmt EXCEPT !.kind = "table", !.name = name, !.clauses = clauses,
                   !.text = "CREATE TABLE " \o name \o " ("
                            \o BodyText(clauses) \o ");"]

IndexStmt(text, name, unique, on, cols) ==
    [NoStmt EXCEPT !.kind = "index", !.text = text, !.name = name,
                   !.unique = unique, !.on = on, !.cols = cols]

OtherStmt(kind, text) == [NoStmt EXCEPT !.kind = kind, !.text = text]

TableNames == {"t", "b"}

IdInt == ColumnClause("id INT", "id", "INT", TRUE, "", FALSE, FALSE)
EmailVarchar ==
    ColumnClause("email VARCHAR(255)", "email", "VARCHAR(255)", TRUE, "", FALSE, FALSE)

StmtPool ==
    { TableStmt("users", <<IdInt, EmailVarchar>>),
      TableStmt("Users", <<IdInt>>),
      TableStmt("orders", <<IdInt>>),
      IndexStmt("CREATE UNIQUE INDEX idx_e ON users (email);", "idx_e", TRUE, "users",
                <<"email">>),
      IndexStmt("CREATE INDEX idx_u ON USERS (id, email);", "idx_u", FALSE, "USERS",
                <<"id", "email">>),
      OtherStmt("other", "DROP TABLE users;"),
      OtherStmt("malformed", "CREATE TABLE broken (id INT") }

\* the texts of one CREATE TABLE with a generated body
TableDocs == {<<TableStmt(n, cl)>> : n \in TableNames, cl \in ClauseSeqs}

\* clauses for parseColumns: types with a list in parentheses, names that
\* start with the letters of a constraint keyword, table-level constraints
\* in either case
EnumAB ==
    ColumnClause("status ENUM('a','b') NOT NULL", "status", "ENUM('a','b')", FALSE, "",
                 FALSE, FALSE)
KeyId == ColumnClause("key_id INT", "key_id", "INT", TRUE, "", FALSE, FALSE)
IndexNo == ColumnClause("index_no INT NOT NULL", "index_no", "INT", FALSE, "", FALSE, FALSE)
UniqueCode ==
    ColumnClause("unique_code VARCHAR(20)", "unique_code", "VARCHAR(20)", TRUE, "",
                 FALSE, FALSE)
ConstraintClause(text) == [NoClause EXCEPT !.kind = "constraint", !.text = text]

BodyPool ==
    { XInt, YDecimal, EnumAB, KeyId, IndexNo, UniqueCode, KeyXY, ForeignY,
      ConstraintClause("unique (x, y)"),
      ConstraintClause("KEY idx_x (x)"),
      ConstraintClause("Index idx_y (y)") }

\* the texts of one CREATE TABLE whose body parseColumns is run on
BodyDocs == {<<TableStmt("t", cl)>> : cl \in UNION {[1..k -> BodyPool] : k \in 1..MaxClauses}}

\* column tokens of a CREATE INDEX list: bare, in the quotes of each
\* dialect, with a direction after the name, with both
ColumnToken(text, name) == [text |-> text, name |-> name]

TokenPool ==
    { ColumnToken("email", "email"),
      ColumnToken(BackQuote \o "email" \o BackQuote, "email"),
      ColumnToken("\"id\"", "id"),
      ColumnToken("[id]", "id"),
      ColumnToken("email DESC", "email"),
      ColumnToken("id  asc", "id"),
      ColumnToken(BackQuote \o "email" \o BackQuote \o " DESC", "email"),
      ColumnToken("[id] ASC", "id") }

TokenTexts(tokens) == [k \in 1..Len(tokens) |-> tokens[k].text]
TokenNames(tokens) == [k \in 1..Len(tokens) |-> tokens[k].name]

IndexOn(tokens) ==
    IndexStmt("CREATE INDEX idx_c ON users (" \o Join(TokenTexts(tokens), ", ") \o ");",
              "idx_c", FALSE, "users", TokenNames(tokens))

\* the texts of a table and an index on it with a generated column list
IndexDocs ==
    {<<TableStmt("users", <<IdInt, EmailVarchar>>), IndexOn(tokens)>> :
        tokens \in UNION {[1..k -> TokenPool] : k \in 1..MaxClauses}}

\* the texts of several statements, in every order
StmtDocs == UNION {[1..k -> StmtPool] : k \in 0..MaxStmts}

StmtTexts(doc) == [i \in 1..Len(doc) |-> doc[i].text]

\* the DDL text of a list of statements, one statement per line
Render(doc) == Join(StmtTexts(doc), "\n")

RECURSIVE OfKind(_, _)
OfKind(seq, kind) ==
    IF Len(seq) = 0 THEN <<>>
    ELSE (IF Head(seq).kind = kind THEN <<Head(seq)>> ELSE <<>>) \o OfKind(Tail(seq), kind)

WellFormed(doc) == \A i \in 1..Len(doc) : doc[i].kind # "malformed"

NoResult ==
    [err |-> FALSE, isNil |-> TRUE,
     schema |-> [Database |-> "", DBType |-> "", Tables |-> NilSlice]]

-----------------------------------------------------------------------------
\* SpecDDL: one call of ParseDDL on a text and a dialect tag

\* ParseDDL stores the tag and reads nothing of it: every tag is tried on the
\* one-table texts, and the server's default tag on the others
InitDDL ==
    /\ \/ pc = "start" /\ ast \in TableDocs /\ dbType \in DBTypes
       \/ pc = "start" /\ ast \in StmtDocs \cup IndexDocs /\ dbType = "mysql"
       \/ pc = "body" /\ ast \in BodyDocs /\ dbType = "mysql"
    /\ ddl = Render(ast)
    /\ ddlOut = NoResult /\ columnsOut = NilSlice
    /\ reply = <<>> /\ responseText = "" /\ userQuery = ""
    /\ queryOut = NoQueryResult /\ validationOut = NoValidation
    /\ JSONIdle /\ ServerIdle /\ DBIdle /\ ConnIdle

CallParseDDL ==
    /\ pc = "start"
    /\ pc' = "done"
    /\ ddlOut' = ParseDDL(ddl, dbType)
    /\ UNCHANGED <<dbType, ast, ddl, columnsOut, reply, responseText, userQuery,
                   queryOut, validationOut, jsonVars, serverVars, dbVars, connVars>>

\* parseColumns on the text between the parentheses of the table
CallParseColumns ==
    /\ pc = "body"
    /\ pc' = "columns"
    /\ columnsOut' = parseColumns(BodyText(ast[1].clauses))
    /\ UNCHANGED <<dbType, ast, ddl, ddlOut, reply, responseText, userQuery, queryOut,
                   validationOut, jsonVars, serverVars, dbVars, connVars>>

NextDDL == CallParseDDL \/ CallParseColumns

SpecDDL == InitDDL /\ [][NextDDL]_vars

-----------------------------------------------------------------------------
\* Properties of ParseDDL (SpecDDL)

\* the CREATE TABLE statements a text was written from, and the tables returned
Written == OfKind(ast, "table")
Tables == ddlOut.schema.Tables.v

\* the columns of the given name in a parsed table
ColumnsNamed(table, name) ==
    {table.Columns.v[j] : j \in {h \in 1..Len(table.Columns.v) : table.Columns.v[h].Name = name}}

\* C1: ParseDDL ends a CREATE TABLE body at the parenthesis matching the one
\* that opens it: for every text of well-formed statements, the body handed to
\* the column and constraint parsers is the whole text between the outer
\* parentheses, and every column written in it is returned with its default
\* (column y of "CREATE TABLE b (x INT, y DECIMAL(10,2) DEFAULT 0.00)" with 0.00).
C1_BodyDepthAware ==
    (pc = "done" /\ WellFormed(ast)) =>
        LET found == FindAllTables(ddl, 1)
        IN  /\ Len(found) = Len(Written)
            /\ Len(Tables) = Len(Written)
            /\ \A k \in 1..Len(Written) :
                 /\ found[k].body = BodyText(Written[k].clauses)
                 /\ \A i \in 1..Len(Written[k].clauses) :
                      LET c == Written[k].clauses[i]
                      IN  c.kind = "col" =>
                              \E col \in ColumnsNamed(Tables[k], c.name) :
                                  col.Default = c.default

\* the text of the spec's example: CREATE TABLE t (id INT PRIMARY KEY
\* AUTO_INCREMENT, name VARCHAR(100) NOT NULL)
C2Doc == <<TableStmt("t", <<IdPrimary, NameNotNull>>)>>

\* C2: for the example text ParseDDL returns exactly one table t with exactly
\* two columns, id a non-nullable auto-increment primary key and name
\* non-nullable; and in every one-table text a column written with an inline
\* PRIMARY KEY, or with NOT NULL after a parenthesised type, is returned
\* non-nullable.
C2_InlineColumns ==
    (pc = "done" /\ ast \in TableDocs) =>
        /\ Len(Tables) = 1
        /\ \A i \in 1..Len(ast[1].clauses) :
             LET c == ast[1].clauses[i]
             IN  (c.kind = "col" /\ ~c.nullable) =>
                     \E col \in ColumnsNamed(Tables[1], c.name) : ~col.Nullable
        /\ ast = C2Doc =>
             LET cols == Tables[1].Columns.v
             IN  /\ Tables[1].Name = "t"
                 /\ Len(cols) = 2
                 /\ cols[1].Name = "id"
                 /\ cols[1].IsPK /\ cols[1].IsAutoIncr /\ ~cols[1].Nullable
                 /\ cols[2].Name = "name"
                 /\ ~cols[2].Nullable

\* the text has no CREATE TABLE, complete or not
NoCreateTable(doc) == \A i \in 1..Len(doc) : doc[i].kind \notin {"table", "malformed"}

\* C3: ParseDDL never returns an error: for every text and dialect tag it
\* returns a non-nil Schema carrying the tag, whose table list is not nil, and
\* is empty when the text has no CREATE TABLE.
C3_NeverFails ==
    pc = "done" =>
        /\ ~ddlOut.err
        /\ ~ddlOut.isNil
        /\ ddlOut.schema.DBType = dbType
        /\ ~ddlOut.schema.Tables.isNil
        /\ NoCreateTable(ast) => Tables = <<>>

\* C3's case: a text of statements, none of them a CREATE TABLE, was parsed
C3_Witness ==
    /\ pc = "done"
    /\ Len(ast) > 0
    /\ NoCreateTable(ast)
    /\ ~ddlOut.err /\ ~ddlOut.schema.Tables.isNil /\ Tables = <<>>

\* C4: for every CREATE TABLE whose body has a table-level PRIMARY KEY (<cols>)
\* clause, the table returned has PrimaryKey equal to the de-quoted names of
\* the clause in order, and every column the clause names has IsPK set.
C4_TablePrimaryKey ==
    (pc = "done" /\ WellFormed(ast)) =>
        \A k \in 1..Len(Written) : \A i \in 1..Len(Written[k].clauses) :
            LET c == Written[k].clauses[i]
            IN  c.kind = "pk" =>
                    /\ k <= Len(Tables)
                    /\ Tables[k].PrimaryKey.v = c.names
                    /\ \A j \in 1..Len(Tables[k].Columns.v) :
                         (\E n \in 1..Len(c.names) : c.names[n] = Tables[k].Columns.v[j].Name)
                             => Tables[k].Columns.v[j].IsPK

\* the FK records the FOREIGN KEY clauses of a body state, in source order
RECURSIVE WrittenFKs(_)
WrittenFKs(clauses) ==
    IF Len(clauses) = 0 THEN <<>>
    ELSE (IF Head(clauses).kind = "fk"
          THEN <<[Name |-> Head(clauses).name, Column |-> Head(clauses).names[1],
                  RefTable |-> Head(clauses).refTable,
                  RefColumn |-> Head(clauses).refColumn,
                  OnDelete |-> "", OnUpdate |-> ""]>>
          ELSE <<>>) \o WrittenFKs(Tail(clauses))

\* C5: for every CREATE TABLE, the table returned holds exactly one FK record
\* per FOREIGN KEY clause of the body, in source order, with the clause's
\* column, referenced table and referenced column, named by its CONSTRAINT
\* name or else fk_<column>_<refTable>.
C5_ForeignKeys ==
    (pc = "done" /\ WellFormed(ast)) =>
        \A k \in 1..Len(Written) :
            /\ k <= Len(Tables)
            /\ Tables[k].ForeignKeys.v = WrittenFKs(Written[k].clauses)

\* the Index a CREATE INDEX statement states
WrittenIndex(st) ==
    [Name |-> st.name, Columns |-> [isNil |-> FALSE, v |-> st.cols],
     IsUnique |-> st.unique, Type |-> "BTREE"]

\* the place among the CREATE TABLE statements of statement i of the text
TableOrdinal(doc, i) == Cardinality({h \in 1..i : doc[h].kind = "table"})

\* how many entries of the given name a table's index list holds
EntriesNamed(table, name) ==
    Cardinality({n \in 1..Len(table.Indexes.v) : table.Indexes.v[n].Name = name})

\* how many CREATE INDEX statements of the text are the statement st
StatementsLike(doc, st) == Cardinality({j \in 1..Len(doc) : doc[j] = st})

\* no two CREATE TABLE statements of the text have the same name as written
DistinctTableNames(doc) ==
    \A i, j \in 1..Len(doc) :
        (doc[i].kind = "table" /\ doc[j].kind = "table" /\ doc[i].name = doc[j].name)
            => i = j

\* C6: in a text whose CREATE TABLE statements have different names, for every
\* CREATE TABLE for T and every CREATE INDEX on a T' equal to T
\* case-insensitively, before or after it, T's Indexes holds one entry per such
\* statement, with its name, uniqueness and columns.
C6_IndexOnEveryMatchingTable ==
    (pc = "done" /\ WellFormed(ast) /\ DistinctTableNames(ast)) =>
        \A i, j \in 1..Len(ast) :
            (ast[i].kind = "table" /\ ast[j].kind = "index"
             /\ EqualFold(ast[j].on, ast[i].name)) =>
                LET k == TableOrdinal(ast, i)
                IN  /\ k <= Len(Tables)
                    /\ EntriesNamed(Tables[k], ast[j].name) = StatementsLike(ast, ast[j])
                    /\ \A n \in 1..Len(Tables[k].Indexes.v) :
                         Tables[k].Indexes.v[n].Name = ast[j].name
                             => Tables[k].Indexes.v[n] = WrittenIndex(ast[j])

-----------------------------------------------------------------------------
\* The response texts the extractors are run on. A response is written from a
\* list of lines; a line keeps, beside its text, what it is: a header and the
\* section it opens, a bulleted line and its entry, a blank line, a code
\* block delimiter, or any other text and its trimmed form.

MaxLines == 3        \* lines in a generated response

\* a line: its text, its kind, the section a header opens, what a text or
\* bulleted line says (the message of an issue), the integer a score line
\* gives (0 when none), and the severity, location and suggestion of an
\* issue line
NoLine ==
    [kind |-> "blank", text |-> "", opens |-> "", content |-> "", score |-> 0,
     severity |-> "info", location |-> "", suggestion |-> "", affirms |-> FALSE]

HeaderLine(text, opens) ==
    [NoLine EXCEPT !.kind = "header", !.text = text, !.opens = opens,
                   !.content = TrimSpace(text)]
TextLine(text, content) == [NoLine EXCEPT !.kind = "text", !.text = text, !.content = content]
BulletLine(text, content) ==
    [NoLine EXCEPT !.kind = "bullet", !.text = text, !.content = content]
BlankLine(text) == [NoLine EXCEPT !.text = text]
FenceLine(text) == [NoLine EXCEPT !.kind = "fence", !.text = text, !.content = text]
IssueLine(text, severity, message, location, suggestion) ==
    [BulletLine(text, message) EXCEPT !.severity = severity, !.location = location,
                                      !.suggestion = suggestion]
ScoreLine(text, score) == [HeaderLine(text, "score") EXCEPT !.score = score]
ValidLine(text, affirms) == [HeaderLine(text, "valid") EXCEPT !.affirms = affirms]

SqlHeader == HeaderLine(hdrSQL, "sql")
ExplainHeader == HeaderLine(hdrExplain, "explain")
TipsHeader == HeaderLine(hdrTips, "tips")
Select1 == TextLine("SELECT 1", "SELECT 1")
Ok == TextLine("ok", "ok")
UseIndex == BulletLine("- use index", "use index")
AvoidScan == BulletLine("- avoid scan", "avoid scan")

\* the lines of responses to a generation or optimization prompt
QueryPool ==
    { SqlHeader,
      HeaderLine("  " \o hdrExplain \o " as follows", "explain"),
      TipsHeader,
      Select1,
      TextLine("  FROM t ", "FROM t"),
      BlankLine("  "),
      UseIndex,
      BulletLine(" " \o bulletDot \o "  avoid scan ", "avoid scan"),
      FenceLine(FenceSql) }

\* the lines of responses to a validation prompt
ValidationPool ==
    { ValidLine(hdrValid \o " false", FALSE),
      ValidLine(hdrValid \o " true", TRUE),
      ScoreLine(" " \o hdrScore \o " 85" \o wordPoints, 85),
      HeaderLine(hdrIssues, "issues"),
      IssueLine("- [error] no such column | " \o labelLocation \o " t.x",
                "error", "no such column", "t.x", ""),
      Select1,
      BlankLine("") }

\* the spec's sample response to a generation prompt
SampleResponse ==
    <<SqlHeader, Select1, BlankLine(""), ExplainHeader, Ok, BlankLine(""),
      TipsHeader, UseIndex, AvoidScan>>

\* a response with its query in a code block
FencedResponse ==
    <<SqlHeader, FenceLine(FenceSql), Select1, FenceLine(Fence), ExplainHeader, Ok>>

QueryDocs ==
    UNION {[1..k -> QueryPool] : k \in 0..MaxLines} \cup {SampleResponse, FencedResponse}

\* the line that opens a code block with another language tag
TagFenceLine(text) == [NoLine EXCEPT !.kind = "tagfence", !.text = text, !.content = text]

\* the lines of a query in a code block, with the delimiters a model writes
FencePool ==
    { SqlHeader,
      ExplainHeader,
      FenceLine(FenceSql),
      FenceLine(Fence),
      TagFenceLine(Fence \o "mysql"),
      TagFenceLine(" " \o Fence \o "SQL"),
      Select1,
      TextLine("  FROM t ", "FROM t") }

\* a response with its query in a code block tagged mysql
TaggedResponse ==
    <<SqlHeader, TagFenceLine(Fence \o "mysql"), Select1, FenceLine(Fence), ExplainHeader, Ok>>

FenceDocs == UNION {[1..k -> FencePool] : k \in 1..MaxLines} \cup {TaggedResponse}

ValidationDocs == UNION {[1..k -> ValidationPool] : k \in 0..MaxLines}

\* score lines: in range, at its ends, out of range, with no integer, with
\* more after the integer, with an integer too long for an int64
ScorePool ==
    { ScoreLine(hdrScore \o " 100", 100),
      ScoreLine(hdrScore \o "1", 1),
      ScoreLine(hdrScore \o " +7 " \o wordPoints, 7),
      ScoreLine(hdrScore \o " 085/100", 85),
      ScoreLine(hdrScore \o " 0", 0),
      ScoreLine(hdrScore \o " -5", -5),
      ScoreLine(hdrScore \o " 101" \o wordPoints, 101),
      ScoreLine(hdrScore \o " 99999999999999999999", 101),
      ScoreLine(hdrScore \o " high", 0),
      ScoreLine(hdrScore \o " 1_0", 0),
      ScoreLine(hdrScore, 0),
      Select1 }

ScoreDocs == UNION {[1..k -> ScorePool] : k \in 1..MaxLines}

\* the spec's issue line, with the labels of the prompt
SampleIssue ==
    IssueLine("- [warning] missing index | " \o labelLocation \o " users.email | "
                \o labelFix \o " add index",
              "warning", "missing index", "users.email", "add index")

\* issue lines: as the prompt asks for them, without blanks around the
\* bars, with fewer fields, without a severity, and lines that are no issue
IssuePool ==
    { HeaderLine(hdrIssues, "issues"),
      HeaderLine(hdrPlan, "plan"),
      SampleIssue,
      IssueLine(bulletDot \o " [error] syntax|" \o labelLocation \o "line 1|"
                  \o labelFix \o "fix it",
                "error", "syntax", "line 1", "fix it"),
      IssueLine("- [info] full scan", "info", "full scan", "", ""),
      UseIndex,
      Select1 }

IssueDocs == UNION {[1..k -> IssuePool] : k \in 1..MaxLines}

\* the word the model writes when it has nothing to list
NoneLine == BulletLine("- " \o wordNone, wordNone)

\* list lines: entries with either bullet, the placeholder, a bullet with
\* nothing after it, a line without a bullet
ListPool ==
    { HeaderLine(hdrIndexes, "indexes"),
      HeaderLine(" " \o hdrSuggestions, "suggestions"),
      UseIndex,
      BulletLine(" " \o bulletDot \o "  idx_email (email) ", "idx_email (email)"),
      NoneLine,
      BulletLine("- ", ""),
      Select1 }

ListDocs == UNION {[1..k -> ListPool] : k \in 1..MaxLines}

\* the line that says the query sent is the best one
OptimalLine == [NoLine EXCEPT !.kind = "phrase", !.text = " " \o wordOptimal \o "."]

\* lines of the optimized section: its header, the header that ends it,
\* the delimiters of a code block, the phrase, lines of a query
OptimizedPool ==
    { HeaderLine(hdrOptimized, "optimized"),
      HeaderLine(hdrPlan, "plan"),
      FenceLine(FenceSql),
      FenceLine(" " \o Fence),
      OptimalLine,
      Select1,
      TextLine("  FROM t ", "FROM t"),
      BlankLine(" ") }

OptimizedDocs == UNION {[1..k -> OptimizedPool] : k \in 1..MaxLines}

\* the words that say a query is not valid
wordNotValid == wordValid \o "haji aneum"

\* validity lines: true and false in either case, the word for valid, the
\* words for not valid, nothing after the header
ValidityPool ==
    { ValidLine(hdrValid \o " true", TRUE),
      ValidLine(hdrValid \o "TRUE", TRUE),
      ValidLine(" " \o hdrValid \o " True (" \o wordValid \o ")", TRUE),
      ValidLine(hdrValid \o " " \o wordValid, TRUE),
      ValidLine(hdrValid \o " false", FALSE),
      ValidLine(hdrValid \o " False", FALSE),
      ValidLine(hdrValid \o " " \o wordNotValid, FALSE),
      ValidLine(hdrValid, FALSE),
      Select1 }

ValidityDocs == UNION {[1..k -> ValidityPool] : k \in 1..MaxLines}

\* lines of a response with the validity, the score and the time inside the
\* sections
TimeLine == [HeaderLine(hdrTime \o " 10ms", "time") EXCEPT !.content = "10ms"]

ScalarPool ==
    { HeaderLine(hdrSuggestions, "suggestions"),
      HeaderLine(hdrPlan, "plan"),
      HeaderLine(hdrIndexes, "indexes"),
      ValidLine(" " \o hdrValid \o " false", FALSE),
      ScoreLine(hdrScore \o " 85", 85),
      TimeLine,
      UseIndex,
      Select1 }

ScalarDocs == UNION {[1..k -> ScalarPool] : k \in 1..MaxLines}

\* the queries sent for validation: the server passes them on as they were
\* posted, with the white space around them
OriginalQueries == {"SELECT 1", " SELECT 2\n"}

LineTexts(doc) == [i \in 1..Len(doc) |-> doc[i].text]

\* the response text of a list of lines
RenderResponse(doc) == Join(LineTexts(doc), "\n")

-----------------------------------------------------------------------------
\* SpecAI: one call of an extractor on a response text

InitAI ==
    /\ pc = "start"
    /\ dbType = "mysql" /\ ast = <<>> /\ ddl = "" /\ ddlOut = NoResult /\ columnsOut = NilSlice
    /\ \/ reply \in QueryDocs \cup FenceDocs /\ userQuery = "SELECT 1"
       \/ reply \in ValidationDocs \cup OptimizedDocs /\ userQuery \in OriginalQueries
       \/ reply \in ScoreDocs \cup IssueDocs \cup ListDocs \cup ScalarDocs \cup ValidityDocs
          /\ userQuery = "SELECT 1"
    /\ responseText = RenderResponse(reply)
    /\ queryOut = NoQueryResult
    /\ validationOut = NoValidation
    /\ JSONIdle /\ ServerIdle /\ DBIdle /\ ConnIdle

CallParseQueryResponse ==
    /\ pc = "start"
    /\ pc' = "query"
    /\ queryOut' = parseQueryResponse(responseText)
    /\ UNCHANGED <<dbType, ast, ddl, ddlOut, columnsOut, reply, responseText, userQuery,
                   validationOut, jsonVars, serverVars, dbVars, connVars>>

CallParseValidationResponse ==
    /\ pc = "start"
    /\ pc' = "validation"
    /\ validationOut' = parseValidationResponse(responseText, userQuery)
    /\ UNCHANGED <<dbType, ast, ddl, ddlOut, columnsOut, reply, responseText, userQuery, queryOut,
                   jsonVars, serverVars, dbVars, connVars>>

NextAI == CallParseQueryResponse \/ CallParseValidationResponse

SpecAI == InitAI /\ [][NextAI]_vars

-----------------------------------------------------------------------------
\* Properties of the extractors (SpecAI)

QuerySections == {"sql", "explain", "tips"}
ValidationHeaders ==
    {"valid", "score", "issues", "indexes", "optimized", "plan", "time", "suggestions"}

\* the line is a header of a generation response
IsQueryHeader(l) == l.kind = "header" /\ l.opens \in QuerySections

\* the state of the line classifier when it comes to line i: the section of
\* the last header above it, "none" when there is no header above
RECURSIVE StateAt(_, _)
StateAt(doc, i) ==
    IF i <= 1 THEN "none"
    ELSE IF IsQueryHeader(doc[i - 1]) THEN doc[i - 1].opens
    ELSE StateAt(doc, i - 1)

\* the lines from line i on, headers apart, that are read in the given state
RECURSIVE LinesRead(_, _, _)
LinesRead(doc, i, state) ==
    IF i > Len(doc) THEN <<>>
    ELSE (IF ~IsQueryHeader(doc[i]) /\ StateAt(doc, i) = state THEN <<doc[i]>> ELSE <<>>)
         \o LinesRead(doc, i + 1, state)

NotBlank(l) == l.kind # "blank"
IsCode(l) == l.kind \notin {"blank", "fence"}
IsBullet(l) == l.kind = "bullet"

TextsOf(ls) == [i \in 1..Len(ls) |-> ls[i].text]
TrimmedOf(ls) == [i \in 1..Len(ls) |-> TrimSpace(ls[i].text)]
ContentsOf(ls) == [i \in 1..Len(ls) |-> ls[i].content]

\* what the classifier is to return for the explanation, the tips and the sample
ClassifiedRest ==
    /\ queryOut.explanation
         = Join(TrimmedOf(SelectSeq(LinesRead(reply, 1, "explain"), NotBlank)), " ")
    /\ queryOut.tips.v = ContentsOf(SelectSeq(LinesRead(reply, 1, "tips"), IsBullet))
    /\ reply = SampleResponse =>
         /\ queryOut.query = "SELECT 1"
         /\ queryOut.explanation = "ok"
         /\ queryOut.tips.v = <<"use index", "avoid scan">>

\* C9 as claimed: parseQueryResponse classifies lines over the states NONE,
\* SQL, EXPLAIN, TIPS: lines above the first header are ignored, a header line
\* switches the state and is discarded, the query is the newline-join of the
\* non-empty lines read in SQL (the white space around the whole apart), the
\* explanation the single-space join of the trimmed non-empty lines read in
\* EXPLAIN, the tips one trimmed entry per bulleted line read in TIPS; the
\* sample text gives SELECT 1, ok, [use index, avoid scan].
C9_QueryOfNonEmptyLines ==
    pc = "query" =>
        /\ queryOut.query
             = TrimSpace(Join(TextsOf(SelectSeq(LinesRead(reply, 1, "sql"), NotBlank)), "\n"))
        /\ ClassifiedRest

\* a text without the marker it begins with and the marker it ends with
MarkersOff(q) ==
    LET opened == IF HasPrefix(q, FenceSql) THEN SubSeq(q, Len(FenceSql) + 1, Len(q)) ELSE q
        begun == IF HasPrefix(opened, Fence)
                 THEN SubSeq(opened, Len(Fence) + 1, Len(opened)) ELSE opened
    IN  IF HasSuffix(begun, Fence) THEN SubSeq(begun, 1, Len(begun) - Len(Fence)) ELSE begun

\* C9, amended: as claimed, but the query is the newline-join of the lines
\* read in SQL that are neither empty nor a code block delimiter (the three
\* backquotes, alone or followed by sql), the white space around the whole
\* taken off, and then the marker the text still begins or ends with.
C9_LineClassifier ==
    pc = "query" =>
        /\ queryOut.query
             = TrimSpace(MarkersOff(
                 TrimSpace(Join(TextsOf(SelectSeq(LinesRead(reply, 1, "sql"), IsCode)), "\n"))))
        /\ ClassifiedRest

\* C9's case: a response with a code block delimiter among the lines read in
\* SQL, a line read in EXPLAIN and a bulleted line read in TIPS was classified
C9_Witness ==
    /\ pc = "query"
    /\ \E i \in 1..Len(reply) : reply[i].kind = "fence" /\ StateAt(reply, i) = "sql"
    /\ queryOut.query = "SELECT 1"
    /\ queryOut.explanation = "ok"

\* the response has no header of the given set
NoHeader(doc, headers) ==
    \A i \in 1..Len(doc) : ~(doc[i].kind = "header" /\ doc[i].opens \in headers)

\* the extractors return no nil list, whatever the text
NeverNil ==
    /\ pc = "query" => ~queryOut.tips.isNil
    /\ pc = "validation" =>
         /\ ~validationOut.Issues.isNil
         /\ ~validationOut.Suggestions.isNil
         /\ ~validationOut.IndexUsage.isNil

\* a text without a header of parseQueryResponse gives nothing
EmptyQueryResult ==
    (pc = "query" /\ NoHeader(reply, QuerySections)) =>
        queryOut = [query |-> "", explanation |-> "", tips |-> EmptySlice]

\* C10: the extractors never fail; for a text with no recognized
\* header parseValidationResponse returns IsValid = true, Score = 50,
\* OptimizedQuery = the original query and empty Issues, Suggestions and
\* IndexUsage, and parseQueryResponse an empty query, explanation and tips
\* list; and a validation response without a score header gives Score = 50
\* and IsValid = true.
C10_Defaults ==
    /\ NeverNil
    /\ EmptyQueryResult
    /\ (pc = "validation" /\ NoHeader(reply, ValidationHeaders)) =>
         validationOut = SeedValidation(userQuery)
    /\ (pc = "validation" /\ NoHeader(reply, {"score"})) =>
         validationOut.Score = 50 /\ validationOut.IsValid

-----------------------------------------------------------------------------
\* The JSON documents ParseJSON is run on. A document is written from
\* parts; a part keeps, beside its tokens, whether it has the shape of the
\* Schema record (only the record's field names, each with a value of the
\* field's type) and whether it is written as ToJSON writes (every field, in
\* the order of the struct, but for an empty default, comment, on_delete or
\* on_update, which is left out).

MaxJSONColumns == 2      \* columns of a table in a generated document

Part(toks, shaped, canonical) ==
    [toks |-> toks, shaped |-> shaped, canonical |-> canonical]

StringPart(s) == Part(<<StrTok(s)>>, TRUE, TRUE)
BoolPart(b) == Part(<<Tok(IF b THEN "true" ELSE "false")>>, TRUE, TRUE)
\* null, where a list is expected
NullPart == Part(<<Tok("null")>>, TRUE, TRUE)
Misshaped(part) == Part(part.toks, FALSE, FALSE)
Unusual(part) == Part(part.toks, part.shaped, FALSE)

PartTokens(parts) == [i \in 1..Len(parts) |-> parts[i].toks]
AllShaped(parts) == \A i \in 1..Len(parts) : parts[i].shaped
AllCanonical(parts) == \A i \in 1..Len(parts) : parts[i].canonical

ArrayPart(items) ==
    Part(<<Tok("[")>> \o Commas(PartTokens(items)) \o <<Tok("]")>>,
         AllShaped(items), AllCanonical(items))

Member(key, part) ==
    Part(<<StrTok(key), Tok(":")>> \o part.toks, part.shaped, part.canonical)

ObjectPart(members) ==
    Part(<<Tok("{")>> \o Commas(PartTokens(members)) \o <<Tok("}")>>,
         AllShaped(members), AllCanonical(members))

\* null, or a list of at most n parts of the pool
ListsOf(pool, n) ==
    {NullPart} \cup {ArrayPart(items) : items \in UNION {[1..k -> pool] : k \in 0..n}}

ColumnId ==
    ObjectPart(<<Member("name", StringPart("id")),
                 Member("type", StringPart("INT")),
                 Member("nullable", BoolPart(FALSE)),
                 Member("is_pk", BoolPart(TRUE)),
                 Member("is_fk", BoolPart(FALSE)),
                 Member("is_unique", BoolPart(FALSE)),
                 Member("is_auto_incr", BoolPart(TRUE))>>)

ColumnQty ==
    ObjectPart(<<Member("name", StringPart("qty")),
                 Member("type", StringPart("DECIMAL(10,2)")),
                 Member("nullable", BoolPart(TRUE)),
                 Member("default", StringPart("0.00")),
                 Member("comment", StringPart("how many")),
                 Member("is_pk", BoolPart(FALSE)),
                 Member("is_fk", BoolPart(TRUE)),
                 Member("is_unique", BoolPart(TRUE)),
                 Member("is_auto_incr", BoolPart(FALSE))>>)

\* the README's way of writing a column: only the fields that are set
ColumnBrief ==
    Unusual(ObjectPart(<<Member("name", StringPart("id")),
                         Member("type", StringPart("INT")),
                         Member("is_pk", BoolPart(TRUE)),
                         Member("is_auto_incr", BoolPart(TRUE))>>))

\* an empty default written out, and a comment with a byte outside UTF-8
ColumnEmptyDefault ==
    Unusual(ObjectPart(<<Member("name", StringPart("email")),
                         Member("type", StringPart("VARCHAR(255)")),
                         Member("nullable", BoolPart(TRUE)),
                         Member("default", StringPart("")),
                         Member("comment", StringPart("a" \o InvalidByte)),
                         Member("is_pk", BoolPart(FALSE)),
                         Member("is_fk", BoolPart(FALSE)),
                         Member("is_unique", BoolPart(TRUE)),
                         Member("is_auto_incr", BoolPart(FALSE))>>))

\* a flag that is not a boolean
ColumnMistyped ==
    Misshaped(ObjectPart(<<Member("name", StringPart("id")),
                           Member("type", StringPart("INT")),
                           Member("nullable", StringPart("yes"))>>))

ColumnParts == {ColumnId, ColumnQty, ColumnBrief, ColumnEmptyDefault, ColumnMistyped}

ForeignPlain ==
    ObjectPart(<<Member("name", StringPart("fk_user_id_users")),
                 Member("column", StringPart("user_id")),
                 Member("ref_table", StringPart("users")),
                 Member("ref_column", StringPart("id"))>>)

ForeignCascade ==
    ObjectPart(<<Member("name", StringPart("fk1")),
                 Member("column", StringPart("qty")),
                 Member("ref_table", StringPart("stock")),
                 Member("ref_column", StringPart("qty")),
                 Member("on_delete", StringPart("CASCADE")),
                 Member("on_update", StringPart("SET NULL"))>>)

ForeignEmptyAction ==
    Unusual(ObjectPart(<<Member("name", StringPart("fk2")),
                         Member("column", StringPart("id")),
                         Member("ref_table", StringPart("t")),
                         Member("ref_column", StringPart("id")),
                         Member("on_delete", StringPart("")),
                         Member("on_update", StringPart("RESTRICT"))>>))

ForeignParts == {ForeignPlain, ForeignCascade, ForeignEmptyAction}

IndexEmail ==
    ObjectPart(<<Member("name", StringPart("idx_email")),
                 Member("columns", ArrayPart(<<StringPart("email"), StringPart("id")>>)),
                 Member("is_unique", BoolPart(TRUE)),
                 Member("type", StringPart("BTREE"))>>)

IndexNoColumns ==
    ObjectPart(<<Member("name", StringPart("idx_none")),
                 Member("columns", NullPart),
                 Member("is_unique", BoolPart(FALSE)),
                 Member("type", StringPart(""))>>)

\* the README's way of writing an index: no type
IndexBrief ==
    Unusual(ObjectPart(<<Member("name", StringPart("idx_email")),
                         Member("columns", ArrayPart(<<StringPart("email")>>)),
                         Member("is_unique", BoolPart(TRUE))>>))

IndexParts == {IndexEmail, IndexNoColumns, IndexBrief}

KeyParts == {NullPart, ArrayPart(<<>>), ArrayPart(<<StringPart("id")>>)}

TablePart(name, columns, primaryKey, foreignKeys, indexes) ==
    ObjectPart(<<Member("name", StringPart(name)),
                 Member("columns", columns),
                 Member("primary_key", primaryKey),
                 Member("foreign_keys", foreignKeys),
                 Member("indexes", indexes)>>)

\* every list of columns in one table, every choice of keys and indexes in
\* another
TableParts ==
    {TablePart("users", columns, ArrayPart(<<StringPart("id")>>), NullPart, ArrayPart(<<>>)) :
        columns \in ListsOf(ColumnParts, MaxJSONColumns)}
    \cup {TablePart("orders", ArrayPart(<<ColumnQty, ColumnId>>), primaryKey, foreignKeys,
                     indexes) :
            primaryKey \in KeyParts,
            foreignKeys \in ListsOf(ForeignParts, 1),
            indexes \in ListsOf(IndexParts, 1)}

TableUsers ==
    TablePart("users", ArrayPart(<<ColumnId, ColumnQty>>), ArrayPart(<<StringPart("id")>>),
              ArrayPart(<<ForeignCascade>>), ArrayPart(<<IndexEmail>>))

TableOrders ==
    TablePart("orders", ArrayPart(<<ColumnId>>), NullPart, ArrayPart(<<>>), NullPart)

\* the README's way of writing a table: no foreign_keys
TableBrief ==
    Unusual(ObjectPart(<<Member("name", StringPart("users")),
                         Member("columns", ArrayPart(<<ColumnBrief>>)),
                         Member("primary_key", ArrayPart(<<StringPart("id")>>)),
                         Member("indexes", ArrayPart(<<IndexBrief>>))>>))

\* a member that is no field of the record, a key in another letter case,
\* a field written twice, a list where the name is expected
TableOddParts ==
    { Misshaped(ObjectPart(<<Member("name", StringPart("users")),
                             Member("engine", StringPart("InnoDB")),
                             Member("columns", ArrayPart(<<ColumnId>>))>>)),
      Misshaped(ObjectPart(<<Member("Name", StringPart("users")),
                             Member("COLUMNS", ArrayPart(<<ColumnId>>))>>)),
      Misshaped(ObjectPart(<<Member("name", StringPart("users")),
                             Member("name", StringPart("orders"))>>)),
      Misshaped(ObjectPart(<<Member("name", ArrayPart(<<StringPart("users")>>))>>)),
      Misshaped(ArrayPart(<<ColumnId>>)),
      Misshaped(NullPart) }

SchemaPart(database, tables, tag) ==
    ObjectPart(<<Member("database", StringPart(database)),
                 Member("tables", tables),
                 Member("db_type", StringPart(tag))>>)

\* the README's document: db_type before tables
SchemaBrief ==
    Unusual(ObjectPart(<<Member("database", StringPart("mydb")),
                         Member("db_type", StringPart("mysql")),
                         Member("tables", ArrayPart(<<TableBrief>>))>>))

SchemaParts ==
    {SchemaPart("shop", ArrayPart(<<table>>), "mysql") :
        table \in TableParts \cup TableOddParts \cup {TableBrief}}
    \cup {SchemaPart(database, tables, tag) :
            database \in {"", "shop"},
            tables \in {NullPart, ArrayPart(<<>>), ArrayPart(<<TableUsers, TableOrders>>)},
            tag \in {"", "postgresql"}}
    \cup { SchemaBrief,
           Unusual(ObjectPart(<<Member("database", StringPart("shop"))>>)),
           Unusual(ObjectPart(<<>>)),
           Misshaped(ObjectPart(<<Member("database", Part(<<NumTok("1")>>, FALSE, FALSE))>>)),
           Misshaped(NullPart),
           Misshaped(ArrayPart(<<>>)),
           Misshaped(StringPart("shop")),
           Misshaped(Part(<<NumTok("1")>>, FALSE, FALSE)) }

Document(part) ==
    [toks |-> part.toks, valid |-> TRUE, shaped |-> part.shaped,
     canonical |-> part.canonical]

\* a text that is not JSON
Malformed(toks) ==
    [toks |-> toks, valid |-> FALSE, shaped |-> FALSE, canonical |-> FALSE]

SampleDocument == SchemaPart("shop", ArrayPart(<<TableUsers, TableOrders>>), "mysql")

\* the sample cut short at every place, begun late, with a stray token
MalformedDocuments ==
    {Malformed(SubSeq(SampleDocument.toks, 1, n)) : n \in 0..(Len(SampleDocument.toks) - 1)}
    \cup { Malformed(Tail(SampleDocument.toks)),
           Malformed(SampleDocument.toks \o <<Tok("}")>>),
           Malformed(<<Tok("{"), StrTok("database"), StrTok("shop"), Tok("}")>>),
           Malformed(<<Tok("{"), StrTok("database"), Tok(":"), StrTok("shop"), Tok(","),
                       Tok("}")>>),
           Malformed(<<Tok("{"), StrTok("tables"), Tok(":"), Tok("["), Tok(","), Tok("]"),
                       Tok("}")>>),
           Malformed(<<Tok("{"), Tok("true"), Tok(":"), StrTok("shop"), Tok("}")>>) }

JSONDocuments == {Document(part) : part \in SchemaParts} \cup MalformedDocuments

\* Schemas that did not come out of ParseJSON: what ParseDDL returns for
\* some texts, one of them with a byte outside UTF-8 in a comment, and what
\* a database may hold
LoadedDDL ==
    { "",
      "CREATE TABLE users (id INT PRIMARY KEY AUTO_INCREMENT, x INT, FOREIGN KEY (x) REFERENCES b(x));",
      "CREATE TABLE t (c INT COMMENT 'a" \o InvalidByte \o "');\nCREATE INDEX i ON t (c);" }

LoadedSchemas ==
    {ParseDDL(text, "mysql").schema : text \in LoadedDDL}
    \cup { NoSchema,
           [Database |-> "shop", DBType |-> "oracle", Tables |-> EmptySlice],
           [Database |-> "shop", DBType |-> "mysql",
            Tables |-> [isNil |-> FALSE, v |-> <<DecodeTable(JNull)>>]] }

-----------------------------------------------------------------------------
\* SpecJSON: ParseJSON on a document, ToJSON on the Schema it returned (or on
\* a Schema loaded otherwise), ParseJSON on the document ToJSON wrote

InitJSON ==
    /\ dbType = "mysql" /\ ast = <<>> /\ ddl = "" /\ ddlOut = NoResult /\ columnsOut = NilSlice
    /\ reply = <<>> /\ responseText = "" /\ userQuery = ""
    /\ queryOut = NoQueryResult /\ validationOut = NoValidation
    /\ \/ pc = "start" /\ jsonIn \in JSONDocuments /\ jsonOut = NoParse
       \/ /\ pc = "loaded" /\ jsonIn = NoDocument
          /\ jsonOut \in {[err |-> FALSE, isNil |-> FALSE, schema |-> s] : s \in LoadedSchemas}
    /\ jsonBack = <<>> /\ jsonAgain = NoParse
    /\ ServerIdle /\ DBIdle /\ ConnIdle

CallParseJSON ==
    /\ pc = "start"
    /\ pc' = "parsed"
    /\ jsonOut' = ParseJSON(jsonIn.toks)
    /\ UNCHANGED <<dbType, ast, ddl, ddlOut, columnsOut, reply, responseText, userQuery, queryOut,
                   validationOut, jsonIn, jsonBack, jsonAgain, serverVars, dbVars, connVars>>

\* ToJSON is given a Schema: no call after a ParseJSON that returned nil
CallToJSON ==
    /\ pc \in {"parsed", "loaded"}
    /\ ~jsonOut.isNil
    /\ pc' = "written"
    /\ jsonBack' = ToJSON(jsonOut.schema)
    /\ UNCHANGED <<dbType, ast, ddl, ddlOut, columnsOut, reply, responseText, userQuery, queryOut,
                   validationOut, jsonIn, jsonOut, jsonAgain, serverVars, dbVars, connVars>>

CallParseJSONBack ==
    /\ pc = "written"
    /\ pc' = "reparsed"
    /\ jsonAgain' = ParseJSON(jsonBack)
    /\ UNCHANGED <<dbType, ast, ddl, ddlOut, columnsOut, reply, responseText, userQuery, queryOut,
                   validationOut, jsonIn, jsonOut, jsonBack, serverVars, dbVars, connVars>>

NextJSON == CallParseJSON \/ CallToJSON \/ CallParseJSONBack

SpecJSON == InitJSON /\ [][NextJSON]_vars

\* every string of a Schema
FieldStrings(records, fields) ==
    {records[i][f] : i \in 1..Len(records), f \in fields}

TableStrings(t) ==
    {t.Name}
    \cup FieldStrings(t.Columns.v, {"Name", "Type", "Default", "Comment"})
    \cup {t.PrimaryKey.v[i] : i \in 1..Len(t.PrimaryKey.v)}
    \cup FieldStrings(t.ForeignKeys.v,
                      {"Name", "Column", "RefTable", "RefColumn", "OnDelete", "OnUpdate"})
    \cup FieldStrings(t.Indexes.v, {"Name", "Type"})
    \cup UNION {{t.Indexes.v[i].Columns.v[j] : j \in 1..Len(t.Indexes.v[i].Columns.v)} :
                  i \in 1..Len(t.Indexes.v)}

SchemaStrings(s) ==
    {s.Database, s.DBType} \cup UNION {TableStrings(s.Tables.v[i]) : i \in 1..Len(s.Tables.v)}

ValidUTF8(s) == ~Contains(s, InvalidByte)

Returned(s) == [err |-> FALSE, isNil |-> FALSE, schema |-> s]

\* C7 (as stated): for any structurally valid schema document x,
\* ToJSON(ParseJSON(x)) equals x, and for any Schema s, ParseJSON(ToJSON(s))
\* equals s, every field preserved.
C7_RoundTrip ==
    /\ (pc \in {"written", "reparsed"} /\ jsonIn.valid /\ jsonIn.shaped) =>
         jsonBack = jsonIn.toks
    /\ pc = "reparsed" => jsonAgain = Returned(jsonOut.schema)

\* C7 (amended): ToJSON(ParseJSON(x)) equals x for a schema document x
\* written as ToJSON writes (every field, in the order of the struct, an
\* empty default, comment, on_delete or on_update left out, strings valid
\* UTF-8); for any document x that ParseJSON accepts,
\* ParseJSON(ToJSON(ParseJSON(x))) equals ParseJSON(x); and for any Schema s
\* whose strings are valid UTF-8, ParseJSON(ToJSON(s)) equals s, every
\* field preserved.
C7_RoundTripCanonical ==
    /\ (pc \in {"written", "reparsed"} /\ jsonIn.canonical) => jsonBack = jsonIn.toks
    /\ (pc = "reparsed" /\ jsonIn # NoDocument) => jsonAgain = Returned(jsonOut.schema)
    /\ (pc = "reparsed" /\ \A s \in SchemaStrings(jsonOut.schema) : ValidUTF8(s)) =>
         jsonAgain = Returned(jsonOut.schema)

\* a document with a default, a comment and both foreign-key actions has
\* gone round, and so has a Schema that ParseDDL returned
C7_Witness ==
    /\ pc = "reparsed"
    /\ jsonIn.canonical
    /\ Len(jsonOut.schema.Tables.v) = 1
    /\ Len(jsonOut.schema.Tables.v[1].Columns.v) = 2
    /\ jsonOut.schema.Tables.v[1].Columns.v[1].Default = "0.00"
    /\ jsonOut.schema.Tables.v[1].Columns.v[1].Comment = "how many"
    /\ jsonOut.schema.Tables.v[1].Columns.v[2].IsAutoIncr
    /\ Len(jsonOut.schema.Tables.v[1].ForeignKeys.v) = 1
    /\ jsonOut.schema.Tables.v[1].ForeignKeys.v[1].OnDelete = "CASCADE"
    /\ jsonOut.schema.Tables.v[1].ForeignKeys.v[1].OnUpdate = "SET NULL"
    /\ jsonOut.schema.Tables.v[1].Indexes.isNil
    /\ jsonBack = jsonIn.toks
    /\ jsonAgain = Returned(jsonOut.schema)

-----------------------------------------------------------------------------
\* The HTTP server's schema state (cmd/server/main.go). A handler runs from
\* its first line to its last in one step. A request is what the handler
\* reads of it: the method, whether the body decodes into a SchemaRequest,
\* and the fields of that SchemaRequest (the json field as the tokens of its
\* text, none for the empty string).

StatusOK == 200
StatusBadRequest == 400
StatusNotFound == 404
StatusMethodNotAllowed == 405

NilSchema == [isNil |-> TRUE, schema |-> NoSchema]
SchemaPtr(s) == [isNil |-> FALSE, schema |-> s]

SchemaRequest(method, bodyOK, ddlText, jsonText, tag) ==
    [path |-> "/api/schema/parse", method |-> method, bodyOK |-> bodyOK,
     DDL |-> ddlText, JSON |-> jsonText, DBType |-> tag]

PlainRequest(path) ==
    [path |-> path, method |-> "GET", bodyOK |-> TRUE, DDL |-> "", JSON |-> <<>>,
     DBType |-> ""]

\* jsonResponse and jsonError: the status and the APIResponse written
jsonResponse(data) == [status |-> StatusOK, success |-> TRUE, data |-> data]
jsonError(status) == [status |-> status, success |-> FALSE, data |-> NilSchema]

\* handleParseDDL: the parser's answer to a request that has a DDL text or a
\* JSON document; the DDL text is taken when both are there
parseRequest(req) ==
    IF req.DDL # ""
    THEN ParseDDL(req.DDL, IF req.DBType # "" THEN req.DBType ELSE "mysql")
    ELSE ParseJSON(req.JSON)

\* what no handler of the server touches
offServer ==
    <<pc, dbType, ast, ddl, ddlOut, columnsOut, reply, responseText, userQuery, queryOut,
      validationOut, jsonVars, dbVars>>

\* the handlers say nothing of inflight: whose request a handler serves is
\* for the specification that runs it to say
handleParseDDL(req) ==
    /\ lastRequest' = req
    /\ IF req.method # "POST"
       THEN httpResponse' = jsonError(StatusMethodNotAllowed) /\ UNCHANGED serverSchema
       ELSE IF ~req.bodyOK \/ (req.DDL = "" /\ req.JSON = <<>>)
       THEN httpResponse' = jsonError(StatusBadRequest) /\ UNCHANGED serverSchema
       ELSE \E parsed \in {parseRequest(req)} :
               IF parsed.err
               THEN httpResponse' = jsonError(StatusBadRequest) /\ UNCHANGED serverSchema
               ELSE /\ serverSchema' = [isNil |-> parsed.isNil, schema |-> parsed.schema]
                    /\ httpResponse' = jsonResponse(serverSchema')
    /\ UNCHANGED <<offServer, dbConn, connections, sampleQuery>>

handleGetSchema ==
    /\ lastRequest' = PlainRequest("/api/schema/current")
    /\ httpResponse' = IF serverSchema.isNil THEN jsonError(StatusNotFound)
                       ELSE jsonResponse(serverSchema)
    /\ UNCHANGED <<offServer, serverSchema, dbConn, connections, sampleQuery>>

\* handleDisconnect: the connection the server holds, if it holds one, is
\* closed (BaseConnector.Close) and let go
handleDisconnect ==
    /\ lastRequest' = PlainRequest("/api/disconnect")
    /\ connections' = IF dbConn # 0 THEN [connections EXCEPT ![dbConn].closed = TRUE]
                      ELSE connections
    /\ dbConn' = 0
    /\ serverSchema' = NilSchema
    /\ httpResponse' = jsonResponse(NilSchema)
    /\ UNCHANGED <<offServer, sampleQuery>>

\* documents ParseJSON is to reject: texts that are not JSON, and JSON that
\* does not fit the record
RejectedDocuments ==
    { Malformed(SubSeq(SampleDocument.toks, 1, Len(SampleDocument.toks) - 1)),
      Malformed(SubSeq(SampleDocument.toks, 1, 1)),
      Malformed(Tail(SampleDocument.toks)),
      Malformed(SampleDocument.toks \o <<Tok("}")>>),
      Malformed(<<Tok("{"), StrTok("database"), StrTok("shop"), Tok("}")>>),
      Malformed(<<StrTok("CREATE TABLE t (id INT);")>>),
      Malformed(SchemaPart("shop",
                           ArrayPart(<<TablePart("users", ArrayPart(<<ColumnMistyped>>),
                                                 NullPart, NullPart, NullPart)>>),
                           "mysql").toks),
      Malformed(ArrayPart(<<TableUsers>>).toks) }

RejectedTexts == {d.toks : d \in RejectedDocuments}

AcceptedTexts == {SampleDocument.toks, SchemaBrief.toks, <<Tok("null")>>}

RequestDDL == {"CREATE TABLE t (id INT);", "DROP TABLE t;"}

SchemaRequests ==
    {SchemaRequest("POST", TRUE, "", text, tag) :
        text \in RejectedTexts \cup AcceptedTexts \cup {<<>>}, tag \in {"", "postgresql"}}
    \cup {SchemaRequest("POST", TRUE, text, <<>>, tag) :
            text \in RequestDDL, tag \in {"", "postgresql"}}
    \cup {SchemaRequest("POST", TRUE, "DROP TABLE t;", text, "") : text \in RejectedTexts}
    \cup {SchemaRequest("GET", TRUE, "", SampleDocument.toks, ""),
          SchemaRequest("POST", FALSE, "", <<>>, "")}

\* main: the server starts with no schema
Init ==
    /\ pc = "serving"
    /\ dbType = "mysql" /\ ast = <<>> /\ ddl = "" /\ ddlOut = NoResult /\ columnsOut = NilSlice
    /\ reply = <<>> /\ responseText = "" /\ userQuery = ""
    /\ queryOut = NoQueryResult /\ validationOut = NoValidation
    /\ JSONIdle
    /\ serverSchema = NilSchema
    /\ lastRequest = NoRequest
    /\ httpResponse = NoResponse
    /\ DBIdle /\ ConnIdle

Next ==
    \/ (\E req \in SchemaRequests : handleParseDDL(req)) /\ UNCHANGED inflight
    \/ handleGetSchema /\ UNCHANGED inflight
    \/ handleDisconnect /\ UNCHANGED inflight

Spec == Init /\ [][Next]_vars

\* the request is for the JSON parser (no DDL with it) and carries a
\* document that is not JSON or does not fit the record
CarriesRejected(req) ==
    /\ req.path = "/api/schema/parse" /\ req.method = "POST" /\ req.bodyOK
    /\ req.DDL = "" /\ req.JSON \in RejectedTexts

\* C8: ParseJSON on a malformed JSON schema document returns a decode error
\* and no Schema (nil); a server parse request that carries such a document
\* (and no DDL, which the handler would parse instead) gets an error
\* response, and the server's current schema is what it was.
C8_MalformedRejected ==
    [][\A req \in SchemaRequests :
         (CarriesRejected(req) /\ handleParseDDL(req)) =>
            /\ ParseJSON(req.JSON) = [err |-> TRUE, isNil |-> TRUE, schema |-> NoSchema]
            /\ httpResponse'.status = StatusBadRequest
            /\ ~httpResponse'.success
            /\ serverSchema' = serverSchema]_vars

\* a request with a malformed document was refused while a schema was set
C8_Witness ==
    /\ CarriesRejected(lastRequest)
    /\ httpResponse = jsonError(StatusBadRequest)
    /\ ~serverSchema.isNil
    /\ Len(serverSchema.schema.Tables.v) = 2

\* the scores of the score lines of a response, in order
RECURSIVE ScoresOf(_)
ScoresOf(doc) ==
    IF doc = <<>> THEN <<>>
    ELSE (IF Head(doc).kind = "header" /\ Head(doc).opens = "score"
          THEN <<Head(doc).score>> ELSE <<>>) \o ScoresOf(Tail(doc))

Admissible(n) == n \in 1..100
LastOf(seq, default) == IF seq = <<>> THEN default ELSE seq[Len(seq)]

ValidationSections == {"issues", "indexes", "optimized", "plan", "suggestions"}

IsHeader(l) == l.kind = "header"

\* the section line i of a validation response is read in, "" above the
\* first section header
RECURSIVE SectionAt(_, _)
SectionAt(doc, i) ==
    IF i <= 1 THEN ""
    ELSE IF IsHeader(doc[i - 1]) /\ doc[i - 1].opens \in ValidationSections
    THEN doc[i - 1].opens
    ELSE SectionAt(doc, i - 1)

\* the lines from line i on, headers apart, read in the given section
RECURSIVE ReadIn(_, _, _)
ReadIn(doc, i, section) ==
    IF i > Len(doc) THEN <<>>
    ELSE (IF ~IsHeader(doc[i]) /\ SectionAt(doc, i) = section THEN <<doc[i]>> ELSE <<>>)
         \o ReadIn(doc, i + 1, section)

IssueWritten(l) ==
    [Type |-> l.severity, Message |-> l.content, Location |-> l.location,
     Suggestion |-> l.suggestion]

IssuesWritten(ls) == [i \in 1..Len(ls) |-> IssueWritten(ls[i])]

\* C12: every bulleted line read in ISSUES, written
\* - [<severity>] <message> | <location label> <location> | <suggestion label> <suggestion>,
\* gives an Issue with the severity as type, the first field as message, and
\* the second and third fields without their labels as location and
\* suggestion; the sample line gives warning, missing index, users.email,
\* add index.
C12_IssueFields ==
    pc = "validation" =>
        validationOut.Issues.v = IssuesWritten(SelectSeq(ReadIn(reply, 1, "issues"), IsBullet))

\* a bulleted line that says something other than the placeholder
IsEntry(l) == l.kind = "bullet" /\ l.content \notin {"", wordNone}

EntriesOf(doc, section) == ContentsOf(SelectSeq(ReadIn(doc, 1, section), IsEntry))

IndexEntriesKept == pc = "validation" => validationOut.IndexUsage.v = EntriesOf(reply, "indexes")

\* C13: in INDEXES and in SUGGESTIONS each bulleted line gives one entry of
\* the list, in order, the bullet and the white space around taken off,
\* but for an entry that is the placeholder for none, which is stored
\* neither in IndexUsage nor in Suggestions.
C13_ListEntries ==
    pc = "validation" =>
        /\ validationOut.IndexUsage.v = EntriesOf(reply, "indexes")
        /\ validationOut.Suggestions.v = EntriesOf(reply, "suggestions")

\* a line of a query: not blank, no delimiter of a code block, not the phrase
IsQueryLine(l) == l.kind \in {"text", "bullet"}

QueryLinesOf(doc) == ContentsOf(SelectSeq(ReadIn(doc, 1, "optimized"), IsQueryLine))

\* C14: in OPTIMIZED every non-empty line is appended to the optimized
\* query unless it is a delimiter of a code block or holds the phrase that
\* the original query is optimal; when no line was appended the returned
\* OptimizedQuery is the original query.
C14_OptimizedLines ==
    pc = "validation" =>
        validationOut.OptimizedQuery =
            IF QueryLinesOf(reply) = <<>> THEN userQuery
            ELSE Join(QueryLinesOf(reply), "\n")

\* the same for an original query with no white space around it
OptimizedLinesTrimmed == userQuery = TrimSpace(userQuery) => C14_OptimizedLines

\* the same when no line read is the original query
OptimizedLinesApart ==
    (userQuery = TrimSpace(userQuery)
        /\ \A i \in 1..Len(QueryLinesOf(reply)) : QueryLinesOf(reply)[i] # userQuery)
    => C14_OptimizedLines

-----------------------------------------------------------------------------
\* The connectors of internal/db (mysql.go, oracle.go, sqlserver.go).
\*
\* A database is the list of its tables, in the order of the table listing.
\* A table is given by what its metadata says: its columns with what holds
\* of each, and the rows its index, foreign key and primary key queries
\* return, in the order of their ORDER BY. A NULL is [valid |-> FALSE].

Null == [valid |-> FALSE, s |-> ""]
Text(s) == [valid |-> TRUE, s |-> s]

Col(name, type, nullable, default, flags) ==
    [name |-> name, type |-> type, nullable |-> nullable, default |-> default,
     pk |-> "pk" \in flags, fk |-> "fk" \in flags, unique |-> "unique" \in flags,
     indexed |-> "indexed" \in flags, auto |-> "auto" \in flags]

IndexRow(index, column, unique) ==
    [index |-> index, column |-> column, unique |-> unique, type |-> "BTREE"]

\* COLUMN_KEY of INFORMATION_SCHEMA.COLUMNS: PRI for a column of the primary
\* key, else UNI for one of a unique index, else MUL for one that starts
\* another index (the index of a foreign key with them)
ColumnKey(c) ==
    IF c.pk THEN "PRI"
    ELSE IF c.unique THEN "UNI"
    ELSE IF c.fk \/ c.indexed THEN "MUL"
    ELSE ""

\* the row of a column in the answer to getColumns' query
MySQLColumnRow(c) ==
    [name |-> c.name, type |-> c.type, nullable |-> IF c.nullable THEN "YES" ELSE "NO",
     default |-> c.default, columnKey |-> ColumnKey(c),
     extra |-> IF c.auto THEN "auto_increment" ELSE "", comment |-> Text("")]

PostgresColumnRow(c) ==
    [name |-> c.name, type |-> c.type, nullable |-> IF c.nullable THEN "YES" ELSE "NO",
     default |-> IF c.auto THEN Text("nextval('seq'::regclass)") ELSE c.default,
     isPK |-> c.pk, isFK |-> c.fk]

OracleColumnRow(c) ==
    [name |-> c.name, type |-> c.type, nullable |-> IF c.nullable THEN "Y" ELSE "N",
     default |-> c.default, isPK |-> IF c.pk THEN "Y" ELSE "N"]

SQLServerColumnRow(c) ==
    [name |-> c.name, type |-> c.type, nullable |-> IF c.nullable THEN "YES" ELSE "NO",
     default |-> c.default, isPK |-> IF c.pk THEN 1 ELSE 0,
     isIdentity |-> IF c.auto THEN 1 ELSE 0]

\* var col models.Column
ZeroColumn ==
    [Name |-> "", Type |-> "", Nullable |-> FALSE, Default |-> "", Comment |-> "",
     IsPK |-> FALSE, IsFK |-> FALSE, IsUnique |-> FALSE, IsAutoIncr |-> FALSE]

\* the body of getColumns' loop, by connector
MySQLColumn(row) ==
    [ZeroColumn EXCEPT
        !.Name = row.name, !.Type = row.type,
        !.Nullable = row.nullable = "YES",
        !.IsPK = row.columnKey = "PRI",
        !.IsFK = row.columnKey = "MUL",
        !.IsUnique = row.columnKey = "UNI",
        !.IsAutoIncr = Contains(row.extra, "auto_increment"),
        !.Default = IF row.default.valid THEN row.default.s ELSE "",
        !.Comment = IF row.comment.valid THEN row.comment.s ELSE ""]

PostgresColumn(row) ==
    [ZeroColumn EXCEPT
        !.Name = row.name, !.Type = row.type,
        !.IsPK = row.isPK, !.IsFK = row.isFK,
        !.Nullable = row.nullable = "YES",
        !.Default = IF row.default.valid THEN row.default.s ELSE "",
        !.IsAutoIncr = row.default.valid /\ Contains(row.default.s, "nextval")]

OracleColumn(row) ==
    [ZeroColumn EXCEPT
        !.Name = row.name, !.Type = row.type,
        !.Nullable = row.nullable = "Y",
        !.IsPK = row.isPK = "Y",
        !.Default = IF row.default.valid THEN row.default.s ELSE ""]

SQLServerColumn(row) ==
    [ZeroColumn EXCEPT
        !.Name = row.name, !.Type = row.type,
        !.Nullable = row.nullable = "YES",
        !.IsPK = row.isPK = 1,
        !.IsAutoIncr = row.isIdentity = 1,
        !.Default = IF row.default.valid THEN row.default.s ELSE ""]

\* the Column a connector makes of a column of the database
ConnectorColumn(type, c) ==
    CASE type = "mysql" -> MySQLColumn(MySQLColumnRow(c))
      [] type = "postgresql" -> PostgresColumn(PostgresColumnRow(c))
      [] type = "oracle" -> OracleColumn(OracleColumnRow(c))
      [] type = "sqlserver" -> SQLServerColumn(SQLServerColumnRow(c))

\* a list built by append from a nil slice
Appended(seq) == [isNil |-> seq = <<>>, v |-> seq]

\* getColumns on the rows read
getColumns(type, cols) == Appended([j \in 1..Len(cols) |-> ConnectorColumn(type, cols[j])])

\* the loop of getIndexes over the rows read: indexMap, from index names to
\* the Index of each
RECURSIVE IndexMapOf(_, _, _)
IndexMapOf(rows, i, indexMap) ==
    IF i > Len(rows) THEN indexMap
    ELSE IndexMapOf(rows, i + 1,
            [n \in DOMAIN indexMap \cup {rows[i].index} |->
                IF n # rows[i].index THEN indexMap[n]
                ELSE IF n \in DOMAIN indexMap
                THEN [indexMap[n] EXCEPT !.Columns = GoAppend(@, rows[i].column)]
                ELSE [Name |-> rows[i].index,
                      Columns |-> GoAppend(NilSlice, rows[i].column),
                      IsUnique |-> rows[i].unique,
                      Type |-> rows[i].type]])

EmptyMap == [n \in {} |-> 0]

\* the orders a range over a map can take its keys in
RangeOrders(m) ==
    {order \in [1..Cardinality(DOMAIN m) -> DOMAIN m] :
        \A a, b \in DOMAIN order : a # b => order[a] # order[b]}

\* getIndexes on the rows read: each of the lists it can return
getIndexes(rows) ==
    {Appended([k \in DOMAIN order |-> IndexMapOf(rows, 1, EmptyMap)[order[k]]]) :
        order \in RangeOrders(IndexMapOf(rows, 1, EmptyMap))}

\* getForeignKeys, getPrimaryKeys, getTables on the rows read
getForeignKeys(rows) ==
    Appended([k \in 1..Len(rows) |->
        [Name |-> rows[k].name, Column |-> rows[k].column,
         RefTable |-> rows[k].refTable, RefColumn |-> rows[k].refColumn]])
getPrimaryKeys(rows) == Appended(rows)
getTables(rows) == Appended(rows)

-----------------------------------------------------------------------------
\* database/sql: how a query can go. QueryContext returns an error; or Scan
\* returns one on the first row; or Next returns false before the last row
\* was read, the error left in rows.Err(); or all rows are read.

MaxFaults == 1       \* queries of one extraction that go wrong

Outcomes(ex, n) ==
    {[at |-> "ok", read |-> n]}
    \cup (IF ex.faults < MaxFaults
          THEN {[at |-> "query", read |-> 0]}
               \cup {[at |-> "scan", read |-> 0] : k \in 1..n}
               \cup {[at |-> "next", read |-> k] : k \in 0..(n - 1)}
          ELSE {})

\* the error of a query that went wrong
ErrorOf(op, table, o) == [op |-> op, table |-> table, at |-> o.at]

\* the query's function returns nil and the error
ReturnsError(o) == o.at \in {"query", "scan"}

\* the rows the loop over rows.Next() has read
RowsRead(rows, o) == SubSeq(rows, 1, o.read)

\* the run, with the first query that went wrong noted
Noted(ex, op, table, o) ==
    IF o.at = "ok" THEN ex
    ELSE [ex EXCEPT !.faults = @ + 1,
                    !.failed = IF @ = NoError THEN ErrorOf(op, table, o) ELSE @]

\* return nil, err
ReturnError(ex, op, table, o) ==
    [Noted(ex, op, table, o) EXCEPT
        !.ret = [isNil |-> TRUE, schema |-> NoSchema], !.err = ErrorOf(op, table, o)]

DatabaseName == "shop"

ListedTables(cat) == [k \in 1..Len(cat) |-> cat[k].name]

\* the table of the database a query names
CatalogTable(name) == CHOOSE t \in {catalog[k] : k \in 1..Len(catalog)} : t.name = name

\* the table the loop of ExtractSchema is at
Current == CatalogTable(extract.tables[extract.i])

\* ExtractSchema: the Schema is made, the tables are listed
ExtractTables ==
    /\ pc = "connected"
    /\ \E o \in Outcomes(extract, Len(catalog)) :
          IF ReturnsError(o)
          THEN /\ pc' = "done"
               /\ extract' = ReturnError(extract, "getTables", "", o)
          ELSE /\ pc' = "table"
               /\ extract' =
                    [Noted(extract, "getTables", "", o) EXCEPT
                        !.schema = [Database |-> DatabaseName, DBType |-> dbType,
                                    Tables |-> EmptySlice],
                        !.tables = getTables(RowsRead(ListedTables(catalog), o)).v,
                        !.i = 1]
    /\ UNCHANGED <<dbType, ast, ddl, ddlOut, columnsOut, reply, responseText, userQuery, queryOut,
                   validationOut, jsonVars, serverVars, catalog, connVars>>

\* the head of the loop over the tables, and the return after it
NextTable ==
    /\ pc = "table"
    /\ IF extract.i > Len(extract.tables)
       THEN /\ pc' = "done"
            /\ extract' = [extract EXCEPT !.ret = SchemaPtr(extract.schema)]
       ELSE /\ pc' = "columns"
            /\ extract' = [extract EXCEPT
                              !.table = [NoTable EXCEPT !.Name = extract.tables[extract.i]]]
    /\ UNCHANGED <<dbType, ast, ddl, ddlOut, columnsOut, reply, responseText, userQuery, queryOut,
                   validationOut, jsonVars, serverVars, catalog, connVars>>

ExtractColumns ==
    /\ pc = "columns"
    /\ \E o \in Outcomes(extract, Len(Current.columns)) :
          IF ReturnsError(o)
          THEN /\ pc' = "done"
               /\ extract' = ReturnError(extract, "getColumns", Current.name, o)
          ELSE /\ pc' = "indexes"
               /\ extract' =
                    [Noted(extract, "getColumns", Current.name, o) EXCEPT
                        !.table.Columns = getColumns(dbType, RowsRead(Current.columns, o))]
    /\ UNCHANGED <<dbType, ast, ddl, ddlOut, columnsOut, reply, responseText, userQuery, queryOut,
                   validationOut, jsonVars, serverVars, catalog, connVars>>

ExtractIndexes ==
    /\ pc = "indexes"
    /\ \E o \in Outcomes(extract, Len(Current.indexRows)) :
          IF ReturnsError(o)
          THEN /\ pc' = "done"
               /\ extract' = ReturnError(extract, "getIndexes", Current.name, o)
          ELSE /\ pc' = "fks"
               /\ \E indexes \in getIndexes(RowsRead(Current.indexRows, o)) :
                     extract' =
                        [Noted(extract, "getIndexes", Current.name, o) EXCEPT
                            !.table.Indexes = indexes]
    /\ UNCHANGED <<dbType, ast, ddl, ddlOut, columnsOut, reply, responseText, userQuery, queryOut,
                   validationOut, jsonVars, serverVars, catalog, connVars>>

ExtractForeignKeys ==
    /\ pc = "fks"
    /\ \E o \in Outcomes(extract, Len(Current.fkRows)) :
          IF ReturnsError(o)
          THEN /\ pc' = "done"
               /\ extract' = ReturnError(extract, "getForeignKeys", Current.name, o)
          ELSE /\ pc' = "pks"
               /\ extract' =
                    [Noted(extract, "getForeignKeys", Current.name, o) EXCEPT
                        !.table.ForeignKeys = getForeignKeys(RowsRead(Current.fkRows, o))]
    /\ UNCHANGED <<dbType, ast, ddl, ddlOut, columnsOut, reply, responseText, userQuery, queryOut,
                   validationOut, jsonVars, serverVars, catalog, connVars>>

\* the primary key is read and the table is appended to the Schema
ExtractPrimaryKeys ==
    /\ pc = "pks"
    /\ \E o \in Outcomes(extract, Len(Current.pkRows)) :
          IF ReturnsError(o)
          THEN /\ pc' = "done"
               /\ extract' = ReturnError(extract, "getPrimaryKeys", Current.name, o)
          ELSE /\ pc' = "table"
               /\ extract' =
                    [Noted(extract, "getPrimaryKeys", Current.name, o) EXCEPT
                        !.schema.Tables =
                            GoAppend(@, [extract.table EXCEPT
                                !.PrimaryKey = getPrimaryKeys(RowsRead(Current.pkRows, o))]),
                        !.i = @ + 1]
    /\ UNCHANGED <<dbType, ast, ddl, ddlOut, columnsOut, reply, responseText, userQuery, queryOut,
                   validationOut, jsonVars, serverVars, catalog, connVars>>

-----------------------------------------------------------------------------
\* SpecDB: one call of ExtractSchema on a connected database

ColId == Col("id", "int", FALSE, Null, {"pk", "auto"})
ColEmail == Col("email", "varchar", FALSE, Null, {"unique"})
ColName == Col("name", "varchar", TRUE, Text("anon"), {"indexed"})
ColUserId == Col("user_id", "int", FALSE, Null, {"fk"})
ColNote == Col("note", "text", TRUE, Null, {})

\* the index rows are in the order of ORDER BY index name, position
UsersTable ==
    [name |-> "users", columns |-> <<ColId, ColEmail, ColName>>,
     indexRows |-> <<IndexRow("PRIMARY", "id", TRUE),
                     IndexRow("idx_name", "name", FALSE),
                     IndexRow("uq_email", "email", TRUE)>>,
     fkRows |-> <<>>, pkRows |-> <<"id">>]

OrdersTable ==
    [name |-> "orders", columns |-> <<ColId, ColUserId, ColNote>>,
     indexRows |-> <<IndexRow("PRIMARY", "id", TRUE),
                     IndexRow("idx_user_note", "user_id", FALSE),
                     IndexRow("idx_user_note", "note", FALSE)>>,
     fkRows |-> <<[name |-> "fk_user", column |-> "user_id",
                   refTable |-> "users", refColumn |-> "id"]>>,
     pkRows |-> <<"id">>]

\* a table with one index, and one with no key at all
TagsTable ==
    [name |-> "tags", columns |-> <<ColId>>,
     indexRows |-> <<IndexRow("PRIMARY", "id", TRUE)>>,
     fkRows |-> <<>>, pkRows |-> <<"id">>]

LogTable ==
    [name |-> "log", columns |-> <<ColNote>>, indexRows |-> <<>>,
     fkRows |-> <<>>, pkRows |-> <<>>]

Catalogs ==
    {<<>>, <<LogTable>>, <<TagsTable>>, <<UsersTable>>, <<OrdersTable, UsersTable>>,
     <<LogTable, TagsTable>>}

InitDB ==
    /\ pc = "connected"
    /\ dbType \in DBTypes
    /\ catalog \in Catalogs
    /\ extract = NoExtract
    /\ ast = <<>> /\ ddl = "" /\ ddlOut = NoResult /\ columnsOut = NilSlice
    /\ reply = <<>> /\ responseText = "" /\ userQuery = ""
    /\ queryOut = NoQueryResult /\ validationOut = NoValidation
    /\ JSONIdle /\ ServerIdle /\ ConnIdle

NextDB ==
    \/ ExtractTables
    \/ NextTable
    \/ ExtractColumns
    \/ ExtractIndexes
    \/ ExtractForeignKeys
    \/ ExtractPrimaryKeys

SpecDB == InitDB /\ [][NextDB]_vars

\* ExtractSchema has returned
Done == pc = "done" /\ extract # NoExtract

\* C15: in every dialect, when the table listing or one of the four
\* queries of a table fails, ExtractSchema returns that error and a nil
\* Schema, however many tables were read before.
C15_NoPartialSchema ==
    (Done /\ extract.failed # NoError) =>
        extract.ret.isNil /\ extract.err = extract.failed

\* the same for the queries that fail in QueryContext or in Scan
FailedCallReturnsError ==
    (Done /\ extract.failed.at \in {"query", "scan"}) =>
        extract.ret.isNil /\ extract.err = extract.failed

\* the names of the indexes in the order they first occur in the rows
RECURSIVE FirstOccurrences(_, _, _)
FirstOccurrences(rows, i, names) ==
    IF i > Len(rows) THEN names
    ELSE FirstOccurrences(rows, i + 1,
            IF \E k \in 1..Len(names) : names[k] = rows[i].index THEN names
            ELSE Append(names, rows[i].index))

\* the columns of the rows of one index, in the order of the rows
RECURSIVE ColumnsInRows(_, _, _)
ColumnsInRows(rows, i, name) ==
    IF i > Len(rows) THEN <<>>
    ELSE (IF rows[i].index = name THEN <<rows[i].column>> ELSE <<>>)
         \o ColumnsInRows(rows, i + 1, name)

IndexNames(indexes) == [k \in 1..Len(indexes) |-> indexes[k].Name]

\* the table's index rows were read to the end, the indexes are stored
IndexesRead == pc = "fks" /\ extract.faults = 0

\* C16: the Index list getIndexes returns keeps the order of the rows: the
\* indexes in the order their names first occur, the columns of each in
\* the order of the rows (so that two extractions of the same rows return
\* the same list).
C16_IndexOrder ==
    IndexesRead =>
        /\ IndexNames(extract.table.Indexes.v) = FirstOccurrences(Current.indexRows, 1, <<>>)
        /\ \A k \in 1..Len(extract.table.Indexes.v) :
              extract.table.Indexes.v[k].Columns.v =
                  ColumnsInRows(Current.indexRows, 1, extract.table.Indexes.v[k].Name)

\* the columns of each index are in the order of the rows
IndexColumnsInOrder ==
    IndexesRead =>
        \A k \in 1..Len(extract.table.Indexes.v) :
            extract.table.Indexes.v[k].Columns.v =
                ColumnsInRows(Current.indexRows, 1, extract.table.Indexes.v[k].Name)

\* the table's column rows were read to the end, the columns are stored
ColumnsRead == pc = "indexes" /\ extract.faults = 0

\* the four flags of a Column are those of the column it was made of
FlagsAgree(column, c) ==
    /\ column.IsPK = c.pk
    /\ column.IsFK = c.fk
    /\ column.IsUnique = c.unique
    /\ column.IsAutoIncr = c.auto

\* C17: in each of the four dialects getColumns sets isPrimaryKey,
\* isForeignKey, isUnique and isAutoIncrement to true exactly when the
\* column is in a primary key, in a foreign key, in a unique constraint, is
\* auto-incrementing; so the flags of a column are the same in every dialect.
C17_ColumnFlags ==
    ColumnsRead =>
        \A j \in 1..Len(Current.columns) :
            FlagsAgree(extract.table.Columns.v[j], Current.columns[j])

\* every dialect gets the primary key flag right
PrimaryKeyFlagAgrees ==
    ColumnsRead =>
        \A j \in 1..Len(Current.columns) :
            extract.table.Columns.v[j].IsPK = Current.columns[j].pk

\* the dialects in which the four flags are right for every column
FlagsAgreeIn ==
    {type \in DBTypes :
        \A c \in {ColId, ColEmail, ColName, ColUserId, ColNote} :
            FlagsAgree(ConnectorColumn(type, c), c)}

\* in no dialect are the four flags right for every column
NoDialectAgrees == FlagsAgreeIn = {}

-----------------------------------------------------------------------------
\* ParseDDL and the names of its Schema

\* no two records of a list have the same Name
DistinctNames(records) ==
    \A a, b \in 1..Len(records) : a # b => records[a].Name # records[b].Name

\* C18: in every Schema ParseDDL returns no two tables have the same name
\* and no two columns of one table have the same name, whatever the DDL
\* text, a text that repeats a CREATE TABLE for one name included.
C18_UniqueNames ==
    (pc = "done" /\ ~ddlOut.isNil) =>
        /\ DistinctNames(ddlOut.schema.Tables.v)
        /\ \A t \in 1..Len(ddlOut.schema.Tables.v) :
              DistinctNames(ddlOut.schema.Tables.v[t].Columns.v)

\* the same for the texts that state each table once, each column once
NamesStatedOnce ==
    /\ \A a, b \in 1..Len(ast) :
          (a # b /\ ast[a].kind = "table" /\ ast[b].kind = "table")
              => ast[a].name # ast[b].name
    /\ \A a \in 1..Len(ast) : \A i, j \in 1..Len(ast[a].clauses) :
          (i # j /\ ast[a].clauses[i].kind = "col" /\ ast[a].clauses[j].kind = "col")
              => ast[a].clauses[i].name # ast[a].clauses[j].name

UniqueNamesKept == NamesStatedOnce => C18_UniqueNames

-----------------------------------------------------------------------------
\* parseColumns on the body of a table

\* the column definitions of a body, as they were written
Definitions(clauses) == OfKind(clauses, "col")

NamesWritten(clauses) == [k \in 1..Len(clauses) |-> clauses[k].name]
TypesWritten(clauses) == [k \in 1..Len(clauses) |-> clauses[k].type]
ColumnNames(columns) == [k \in 1..Len(columns) |-> columns[k].Name]
ColumnTypes(columns) == [k \in 1..Len(columns) |-> columns[k].Type]

\* no name of a column definition starts with the letters of a keyword
NoKeywordNames(clauses) ==
    \A k \in 1..Len(clauses) : clauses[k].kind = "col" => ~IsConstraintLine(clauses[k].text)

\* no type of a column definition has a comma
NoListTypes(clauses) ==
    \A k \in 1..Len(clauses) : clauses[k].kind = "col" => ~Contains(clauses[k].type, ",")

\* C19: a comma in parentheses separates no clauses: each column
\* definition gives one Column, whose type keeps its parameters in full,
\* and no Column comes from a piece of a parameter list.
C19_DepthAwareSplit ==
    (pc = "columns" /\ NoKeywordNames(ast[1].clauses)) =>
        /\ Len(columnsOut.v) = Len(Definitions(ast[1].clauses))
        /\ ColumnTypes(columnsOut.v) = TypesWritten(Definitions(ast[1].clauses))

\* the same for the bodies with no comma in a type
SplitOfPlainTypes ==
    (pc = "columns" /\ NoListTypes(ast[1].clauses)) => C19_DepthAwareSplit

\* C20: a clause gives no Column exactly when it begins, in either case,
\* with PRIMARY KEY, FOREIGN KEY, CONSTRAINT, INDEX, KEY or UNIQUE as a
\* keyword; every other clause <identifier> <type> gives one Column, in
\* the order of the text, a column named key_id, index_no or unique_code
\* too.
C20_ConstraintClauses ==
    pc = "columns" =>
        ColumnNames(columnsOut.v) = NamesWritten(Definitions(ast[1].clauses))

\* the same for the bodies with no such name
ColumnsOfPlainNames ==
    (pc = "columns" /\ NoKeywordNames(ast[1].clauses)) => C20_ConstraintClauses

-----------------------------------------------------------------------------
\* parseIndexes and the column tokens of an index

\* the text is a table and an index on it
TableWithIndex ==
    /\ pc = "done" /\ Len(ast) = 2
    /\ ast[1].kind = "table" /\ ast[2].kind = "index"
    /\ EqualFold(ast[1].name, ast[2].on)

\* the tokens of the index have no quote with a direction after it
NoQuotedDirection ==
    \A k \in 1..Len(ddlOut.schema.Tables.v[1].Indexes.v[1].Columns.v) :
        \A q \in QuoteCutset :
            ~Contains(ddlOut.schema.Tables.v[1].Indexes.v[1].Columns.v[k], q)

\* C21: for every column token of a CREATE INDEX list parseIndexes stores
\* the bare column name: the quotes of the dialect around it are removed
\* and an ASC or DESC after it is dropped, also when both occur together.
C21_BareIndexColumns ==
    TableWithIndex =>
        /\ Len(ddlOut.schema.Tables.v[1].Indexes.v) = 1
        /\ ddlOut.schema.Tables.v[1].Indexes.v[1].Columns.v = ast[2].cols

\* one index is stored, with one column for each token
IndexColumnsCounted ==
    TableWithIndex =>
        /\ Len(ddlOut.schema.Tables.v[1].Indexes.v) = 1
        /\ Len(ddlOut.schema.Tables.v[1].Indexes.v[1].Columns.v) = Len(ast[2].cols)

\* the names stored without a quote are the names written
UnquotedColumnsBare ==
    (TableWithIndex /\ NoQuotedDirection) => C21_BareIndexColumns

-----------------------------------------------------------------------------
\* parseQueryResponse and the delimiters of a code block

\* a line of the query: not blank, no delimiter of a code block
IsStatement(l) == l.kind \notin {"blank", "fence", "tagfence"}

\* C22: in parseQueryResponse the non-empty lines read in SQL that are no
\* delimiter of a code block are appended as they are, in order, and a
\* delimiter line gives nothing: the query returned holds no marker of a
\* code block and no text of a delimiter line (a language tag), at its
\* start, at its end or in between.
C22_NoFenceInQuery ==
    pc = "query" =>
        /\ ~Contains(queryOut.query, Fence)
        /\ queryOut.query
             = TrimSpace(Join(TextsOf(SelectSeq(LinesRead(reply, 1, "sql"), IsStatement)), "\n"))

\* the same for the responses whose delimiters are the bare marker or the
\* marker with sql
NoTagFence(doc) == \A i \in 1..Len(doc) : doc[i].kind # "tagfence"

PlainFencesDropped == NoTagFence(reply) => C22_NoFenceInQuery

-----------------------------------------------------------------------------
\* parseValidationResponse and the lines of the validity, the score, the time

\* a validity, score or time line
IsScalar(l) == l.kind = "header" /\ l.opens \in {"valid", "score", "time"}

\* a bulleted line that says something
IsItem(l) == l.kind = "bullet" /\ l.content # ""

MessagesOf(issues) == [k \in 1..Len(issues) |-> issues[k].Message]

\* C23: the validity, score and time lines are matched in every section and
\* leave the section as it was: the lines after one are read in the section
\* that was open before it, and the line itself goes to no list and no text
\* of a section.
C23_ScalarKeepsSection ==
    pc = "validation" =>
        /\ validationOut.Suggestions.v
             = ContentsOf(SelectSeq(ReadIn(reply, 1, "suggestions"), IsItem))
        /\ validationOut.IndexUsage.v = EntriesOf(reply, "indexes")
        /\ MessagesOf(validationOut.Issues.v)
             = ContentsOf(SelectSeq(ReadIn(reply, 1, "issues"), IsItem))
        /\ validationOut.ExecutionPlan
             = Join(TrimmedOf(SelectSeq(ReadIn(reply, 1, "plan"), NotBlank)), " ")
        /\ (\E i \in 1..Len(reply) : reply[i] = TimeLine)
             => validationOut.EstimatedTime = TimeLine.content

\* C23's case: a score line and a time line between the header of a
\* section and a line of it, the line read in that section
C23_Witness ==
    /\ pc = "validation"
    /\ \/ /\ reply = <<HeaderLine(hdrSuggestions, "suggestions"), ScoreLine(hdrScore \o " 85", 85),
                       UseIndex>>
          /\ validationOut.Suggestions.v = <<"use index">>
          /\ validationOut.Score = 85
       \/ /\ reply = <<HeaderLine(hdrPlan, "plan"), TimeLine, Select1>>
          /\ validationOut.ExecutionPlan = "SELECT 1"
          /\ validationOut.EstimatedTime = "10ms"

\* the validity lines of a response, in order
IsValidity(l) == l.kind = "header" /\ l.opens = "valid"
ValidityLines(doc) == SelectSeq(doc, IsValidity)

\* C24: with a validity line in the response, IsValid is true exactly when
\* what the line says affirms that the query is valid: true in either case
\* or the word for valid; false, or the words for not valid, give false.
C24_ValidityAffirmed ==
    (pc = "validation" /\ ValidityLines(reply) # <<>>) =>
        validationOut.IsValid = ValidityLines(reply)[Len(ValidityLines(reply))].affirms

\* the same for the responses without the words for not valid
NoNegation(doc) == \A i \in 1..Len(doc) : ~Contains(doc[i].text, wordNotValid)

ValidityOfPlainWords == NoNegation(reply) => C24_ValidityAffirmed

-----------------------------------------------------------------------------
\* The server's database connection (cmd/server/main.go handleConnect,
\* handleDisconnect, handleSampleData; internal/db/connector.go). A
\* connection is what Connect opened: the type and the database of its
\* config, and whether Close was called on it.

StatusInternalServerError == 500

MaxConnections == 2     \* connections opened in one run

\* db.NewConnector: the types it has a connector for
ConnectorTypes == {"mysql", "postgresql", "oracle", "sqlserver"}

ConnectRequest(method, bodyOK, type, database) ==
    [path |-> "/api/connect", method |-> method, bodyOK |-> bodyOK,
     Type |-> type, Database |-> database]

\* conn.Connect succeeded on a connector of that config
Connection(req) == [Type |-> req.Type, Database |-> req.Database, closed |-> FALSE]

\* the tables of the databases there are: a shop with one table, and an
\* empty database
TablesIn(database) ==
    IF database = "shop"
    THEN [isNil |-> FALSE,
          v |-> <<[NoTable EXCEPT
                     !.Name = "users",
                     !.Columns = [isNil |-> FALSE,
                                  v |-> <<[ZeroColumn EXCEPT !.Name = "id",
                                                             !.Type = "int",
                                                             !.IsPK = TRUE]>>],
                     !.PrimaryKey = [isNil |-> FALSE, v |-> <<"id">>]]>>]
    ELSE EmptySlice

\* conn.ExtractSchema when no query of it fails: the Schema of the
\* connection's database
ExtractSchema(conn) ==
    [Database |-> conn.Database, DBType |-> conn.Type, Tables |-> TablesIn(conn.Database)]

\* how a connect goes on the database's side: Connect fails, Connect
\* succeeds and ExtractSchema fails, or both succeed
ConnectOutcomes == {"refused", "unreadable", "extracted"}

handleConnect(req, outcome) ==
    /\ lastRequest' = req
    /\ IF req.method # "POST"
       THEN /\ httpResponse' = jsonError(StatusMethodNotAllowed)
            /\ UNCHANGED <<serverSchema, dbConn, connections>>
       ELSE IF ~req.bodyOK \/ req.Type \notin ConnectorTypes
       THEN /\ httpResponse' = jsonError(StatusBadRequest)
            /\ UNCHANGED <<serverSchema, dbConn, connections>>
       ELSE IF outcome = "refused"
       THEN /\ httpResponse' = jsonError(StatusInternalServerError)
            /\ UNCHANGED <<serverSchema, dbConn, connections>>
       ELSE /\ Len(connections) < MaxConnections
            /\ connections' = Append(connections, Connection(req))
            /\ IF outcome = "unreadable"
               THEN /\ httpResponse' = jsonError(StatusInternalServerError)
                    /\ UNCHANGED <<serverSchema, dbConn>>
               ELSE /\ dbConn' = Len(connections')
                    /\ serverSchema' = SchemaPtr(ExtractSchema(Connection(req)))
                    /\ httpResponse' = jsonResponse(serverSchema')
    /\ UNCHANGED <<offServer, sampleQuery>>

ConnectRequests ==
    {ConnectRequest("POST", TRUE, type, database) :
        type \in {"mysql", "sqlite"}, database \in {"shop", "blog"}}
    \cup {ConnectRequest("GET", TRUE, "mysql", "shop"),
          ConnectRequest("POST", FALSE, "", "")}

-----------------------------------------------------------------------------
\* Requests served at the same time. net/http runs each request's handler
\* in a goroutine of its own, and the Server has no lock: the handlers that
\* use the schema read s.schema once for the nil test and once more for the
\* use, and a handler that sets s.schema can run between the two reads.

\* the handlers that pass the schema to the AI provider
AIHandlers == {"generate", "optimize", "validate"}

\* the schema a generate request can carry (GenerateRequest.Schema)
RequestSchema == [Database |-> "own", DBType |-> "mysql", Tables |-> TablesIn("shop")]

\* a request of client c has arrived and was decoded; own: a generate
\* request that carries a schema with tables
Arrive(c, handler, own) ==
    /\ inflight[c].pc \in {"", "done", "refused"}
    /\ own => handler = "generate"
    /\ inflight' = [inflight EXCEPT ![c] = [handler |-> IF own THEN "generateOwn" ELSE handler,
                                            pc |-> "check", passed |-> NilSchema]]
    /\ UNCHANGED <<offServer, serverVars, dbConn, connections, sampleQuery>>

\* the test of s.schema: handleGenerate (which takes the request's schema
\* when it has tables), handleOptimize, handleValidate, handleGetSchema
CheckSchema(c) ==
    /\ inflight[c].pc = "check"
    /\ inflight' = [inflight EXCEPT ![c] =
                      IF inflight[c].handler = "generateOwn"
                      THEN [@ EXCEPT !.pc = "done", !.passed = SchemaPtr(RequestSchema)]
                      ELSE IF serverSchema.isNil THEN [@ EXCEPT !.pc = "refused"]
                      ELSE [@ EXCEPT !.pc = "use"]]
    /\ UNCHANGED <<offServer, serverVars, dbConn, connections, sampleQuery>>

\* the use of s.schema: the second read, whose value goes to NewGenerator,
\* to ValidateQuery or into the response
UseSchema(c) ==
    /\ inflight[c].pc = "use"
    /\ inflight' = [inflight EXCEPT ![c] = [@ EXCEPT !.pc = "done", !.passed = serverSchema]]
    /\ UNCHANGED <<offServer, serverVars, dbConn, connections, sampleQuery>>

\* client c's request to a handler that sets s.schema is served in one
\* step: c has no other request under way, and none after it
Served(c) ==
    /\ inflight[c].pc \in {"", "done", "refused"}
    /\ inflight' = [inflight EXCEPT ![c] = NoHandler]

ServeDDL == SchemaRequest("POST", TRUE, "DROP TABLE t;", <<>>, "")
ServeConnect == ConnectRequest("POST", TRUE, "mysql", "shop")

Loads(c) ==
    \/ Served(c) /\ handleParseDDL(ServeDDL)
    \/ Served(c) /\ \E outcome \in ConnectOutcomes : handleConnect(ServeConnect, outcome)
    \/ Served(c) /\ handleDisconnect

InitServe ==
    /\ pc = "serving"
    /\ dbType = "mysql" /\ ast = <<>> /\ ddl = "" /\ ddlOut = NoResult /\ columnsOut = NilSlice
    /\ reply = <<>> /\ responseText = "" /\ userQuery = ""
    /\ queryOut = NoQueryResult /\ validationOut = NoValidation
    /\ JSONIdle /\ ServerIdle /\ DBIdle /\ ConnIdle

NextServe ==
    \/ \E c \in Clients, handler \in AIHandlers \cup {"schema"}, own \in BOOLEAN :
          Arrive(c, handler, own)
    \/ \E c \in Clients : CheckSchema(c)
    \/ \E c \in Clients : UseSchema(c)
    \/ \E c \in Clients : Served(c) /\ handleParseDDL(ServeDDL)
    \/ \E c \in Clients, outcome \in ConnectOutcomes :
          Served(c) /\ handleConnect(ServeConnect, outcome)
    \/ \E c \in Clients : Served(c) /\ handleDisconnect

SpecServe == InitServe /\ [][NextServe]_vars

\* a request of the client has passed its decoding and has not yet used the
\* schema
Serving(d) == inflight[d].pc \in {"check", "use"}

\* C25: sessions against one server do not interfere: a schema load, a
\* connect or a disconnect that one client issues never changes the schema
\* that a request of another client, being served, uses or sees.
C25_SessionsIsolated ==
    [][\A c \in Clients, d \in Clients :
          (c # d /\ Serving(d) /\ Loads(c)) => serverSchema' = serverSchema]_vars

\* what holds instead: the requests that fail, whoever issued them, leave
\* the schema every client uses as it was
FailedLoadsKeepSchema ==
    [][\A c \in Clients :
          (Loads(c) /\ ~httpResponse'.success) => serverSchema' = serverSchema]_vars

-----------------------------------------------------------------------------
\* C26: when at least one line is accepted in OPTIMIZED, OptimizedQuery is
\* the accepted (trimmed) lines joined by newlines, in order, in place of
\* the original query: for every original query and every sequence of
\* lines, also when an accepted line is the original query's text and more
\* lines follow.
C26_AcceptedLinesJoined ==
    (pc = "validation" /\ QueryLinesOf(reply) # <<>>) =>
        validationOut.OptimizedQuery = Join(QueryLinesOf(reply), "\n")

\* the accepted lines before the last: none of them leaves the query built
\* so far equal to the original query
NeverOriginal(lines, original) ==
    \A k \in 1..(Len(lines) - 1) : Join(SubSeq(lines, 1, k), "\n") # original

\* what holds instead: the lines are joined when the query built so far is
\* never the original query's text
JoinedWhenNeverOriginal ==
    NeverOriginal(QueryLinesOf(reply), userQuery) => C26_AcceptedLinesJoined

-----------------------------------------------------------------------------
\* a request to the AI provider has been served to its end
Provided(c) == inflight[c].pc = "done" /\ inflight[c].handler \in AIHandlers

\* C27: under every interleaving of handleGenerate, handleOptimize and
\* handleValidate with handleDisconnect, handleParseDDL and handleConnect on
\* one Server, the schema passed to the AI provider is never nil: a request
\* that passed its nil test uses a schema that is not nil.
C27_SchemaNeverNil ==
    \A c \in Clients : Provided(c) => ~inflight[c].passed.isNil

\* what holds instead: a generate request with a schema of its own passes
\* that schema, whatever the other requests do
RequestSchemaNeverNil ==
    \A c \in Clients :
        (inflight[c].pc = "done" /\ inflight[c].handler = "generateOwn") =>
            inflight[c].passed = SchemaPtr(RequestSchema)

\* the schema used is the server's schema at the time of the use: a step
\* that uses it passes what s.schema holds then
UsesCurrentSchema ==
    [][\A c \in Clients : UseSchema(c) => inflight'[c].passed = serverSchema]_vars

-----------------------------------------------------------------------------
\* Requests served one after the other: connect, parse, disconnect, sample
\* data and the current schema, on a server that starts with no connection.

\* fmt.Sscanf(s, "%d", &limit) reads no number: no digit after the blanks
\* and the sign, an underscore in the run of digits, or a run that
\* overflows int64 (strconv.ParseInt's range error)
MaxInt64Text == "9223372036854775807"
MinInt64Text == "9223372036854775808"

\* a <= b for digit strings of one length
RECURSIVE DigitsLeq(_, _)
DigitsLeq(a, b) ==
    IF a = "" THEN TRUE
    ELSE IF At(a, 1) = At(b, 1) THEN DigitsLeq(Tail(a), Tail(b))
    ELSE DigitValue(At(a, 1)) < DigitValue(At(b, 1))

ScanOverflows(s) ==
    LET start == Span(s, 1, {" ", "\t", "\r"})
        signed == start <= Len(s) /\ At(s, start) \in {"+", "-"}
        from == IF signed THEN start + 1 ELSE start
        to == Span(s, from, DigitSet)
        first == Span(s, from, {"0"})
        significant == IF first < to THEN Cut(s, first, to) ELSE ""
        most == IF signed /\ At(s, start) = "-" THEN MinInt64Text ELSE MaxInt64Text
    IN  \/ Len(significant) > Len(most)
        \/ Len(significant) = Len(most) /\ ~DigitsLeq(significant, most)

ScanFails(s) ==
    LET start == Span(s, 1, {" ", "\t", "\r"})
        signed == start <= Len(s) /\ At(s, start) \in {"+", "-"}
        from == IF signed THEN start + 1 ELSE start
        to == Span(s, from, DigitSet \cup {"_"})
    IN  to = from \/ Contains(Cut(s, from, to), "_") \/ ScanOverflows(s)

\* handleSampleData: the limit of the sample query
DefaultLimit == 10
MaxLimit == 100

SampleLimit(limitStr) ==
    IF limitStr = "" \/ ScanFails(limitStr) THEN DefaultLimit
    ELSE IF ScanInt(limitStr) > MaxLimit THEN MaxLimit
    ELSE ScanInt(limitStr)

\* the form of the sample query, by the connection's type
QueryForm(type) ==
    IF type = "sqlserver" THEN "SELECT TOP %d * FROM %s"
    ELSE IF type = "oracle" THEN "SELECT * FROM %s WHERE ROWNUM <= %d"
    ELSE "SELECT * FROM %s LIMIT %d"

SampleRequest(table, limitStr) ==
    [path |-> "/api/sample", method |-> "GET", table |-> table, limit |-> limitStr]

\* failed: ExecuteQuery returns an error
handleSampleData(req, failed) ==
    /\ lastRequest' = req
    /\ IF req.table = "" \/ dbConn = 0
       THEN httpResponse' = jsonError(StatusBadRequest) /\ UNCHANGED sampleQuery
       ELSE /\ sampleQuery' = [form |-> QueryForm(connections[dbConn].Type),
                               table |-> req.table, limit |-> SampleLimit(req.limit)]
            /\ httpResponse' = IF failed THEN jsonError(StatusInternalServerError)
                               ELSE jsonResponse(NilSchema)
    /\ UNCHANGED <<offServer, serverSchema, dbConn, connections>>

LimitTexts ==
    {"", "abc", "5", "101", "0", "-5", " 5", "5abc", "1_0", "+5",
     "4000000000", "9223372036854775807", "9223372036854775808"}

SampleRequests ==
    {SampleRequest("users", text) : text \in LimitTexts} \cup {SampleRequest("", "5")}

LoadRequests ==
    {SchemaRequest("POST", TRUE, "CREATE TABLE t (id INT);", <<>>, ""),
     SchemaRequest("POST", TRUE, "", <<>>, "")}

NextConn ==
    \/ (\E req \in ConnectRequests, outcome \in ConnectOutcomes : handleConnect(req, outcome))
          /\ UNCHANGED inflight
    \/ handleDisconnect /\ UNCHANGED inflight
    \/ (\E req \in LoadRequests : handleParseDDL(req)) /\ UNCHANGED inflight
    \/ handleGetSchema /\ UNCHANGED inflight
    \/ (\E req \in SampleRequests, failed \in BOOLEAN : handleSampleData(req, failed))
          /\ UNCHANGED inflight

SpecConn == InitServe /\ [][NextConn]_vars

\* a request that the server answered with an error has run
Failed == ~httpResponse'.success

\* C28: after any sequence of requests served one after the other, when the
\* server holds a connection (dbConn not nil) its current schema is the
\* schema that was extracted from that connection; a request that fails
\* leaves dbConn and the schema as they were.
C28_SchemaOfConnection ==
    [][/\ dbConn' # 0 => serverSchema' = SchemaPtr(ExtractSchema(connections'[dbConn']))
       /\ Failed => (dbConn' = dbConn /\ serverSchema' = serverSchema)]_vars

\* what holds instead: a failed request leaves both as they were, and right
\* after a connect that succeeded the schema is the connection's
FailedRequestsKeepState ==
    [][Failed => (dbConn' = dbConn /\ serverSchema' = serverSchema)]_vars

SchemaOfNewConnection ==
    [][dbConn' \notin {0, dbConn} =>
          serverSchema' = SchemaPtr(ExtractSchema(connections'[dbConn']))]_vars

\* C29: every connection handleConnect opened is the server's dbConn or is
\* closed: at most one connection is open after any sequence of connects
\* and disconnects, and none after a disconnect.
C29_OneOpenConnection ==
    \A i \in 1..Len(connections) : i = dbConn \/ connections[i].closed

\* what holds instead: the connection the server holds is open, and a
\* disconnect closes it and leaves the server with none
HeldConnectionOpen == dbConn # 0 => ~connections[dbConn].closed

DisconnectClosesHeld ==
    [][handleDisconnect =>
          /\ dbConn' = 0
          /\ dbConn # 0 => connections'[dbConn].closed]_vars

\* C30: the limit handleSampleData puts into the sample query is between 1
\* and 100: 10 with no limit parameter or one that is not a number, the
\* given value when in range, 100 when the value is over 100; never zero or
\* a negative value.
C30_LimitInRange ==
    sampleQuery # NoQuery => sampleQuery.limit \in 1..MaxLimit

\* what holds instead: the limit is at most 100, and it is 10 when the
\* parameter is absent or Sscanf reads no number from it
LimitAtMost == sampleQuery # NoQuery => sampleQuery.limit <= MaxLimit

DefaultWhenUnread ==
    [][\A req \in SampleRequests, failed \in BOOLEAN :
          (handleSampleData(req, failed) /\ dbConn # 0 /\ req.table # ""
             /\ (req.limit = "" \/ ScanFails(req.limit)))
          => sampleQuery'.limit = DefaultLimit]_vars
====
